---------------------------- MODULE Spec2Model ----------------------------
(***************************************************************************)
(* Promise-delivery date engine (gdlt88/narvar).                           *)
(*                                                                         *)
(* Three bindings of the same business logic are modelled:                 *)
(*   - the client utility with dynamic holidays (bare names), from         *)
(*     shipping-method-options.jsx lines 588-1039;                         *)
(*   - the client utility with the static holiday list (Static_ names),    *)
(*     from shipping-method-options.jsx lines 286-586;                     *)
(*   - the server cartridge helper (Helper_ names), from                   *)
(*     promiseDeliveryHelper.js.                                           *)
(*                                                                         *)
(* A calendar date is a day number (days since 1970-01-01) in the civil    *)
(* calendar of the zone in which the Date / Calendar object reports its    *)
(* fields.  A clock instant is a number of hours since 1970-01-01T00:00Z.  *)
(* A JavaScript string that the code inspects character by character (a    *)
(* ZIP code) is a sequence of one-character strings; a string the code     *)
(* only builds and compares (a YYYY-MM-DD date) is a TLA+ string.          *)
(***************************************************************************)
EXTENDS Integers, Sequences, FiniteSets, TLC

VARIABLES
    clock,          \* the wall clock: hours since 1970-01-01T00:00Z
    env,            \* the process: its local zone and its Intl behaviour
    holidayCache,   \* the client's Map year -> array of YYYY-MM-DD strings
    callerDate,     \* the Date object the caller holds and passes
    callerZip,      \* the ZIP code the caller holds and passes
    ret             \* the last call: operation, arguments, returned value

vars == <<clock, env, holidayCache, callerDate, callerZip, ret>>

----------------------------------------------------------------------------
(* Bounds of the model *)

\* getHolidaysForYear is called for the years MinYear .. MinYear + YearSpan
MinYear == 2000
YearSpan == 27
\* at most this many years enter the cache in the holiday specification
MaxCachedYears == 2
\* addBusinessDays is called with 0 .. MaxBusinessDays
MaxBusinessDays == 5
\* the caller's Date runs over CalendarSpan days from 2024-12-01 on
CalendarSpan == 400
\* every ZIP string of at most MaxZipLen characters over "0", "9", "-"
MaxZipLen == 5
\* the clock runs for ClockSpan hours from each of its starting points
ClockSpan == 264
\* hour boundaries the clock may pass during one call of the server helper
MaxCallSkew == 1
\* the clock of the estimator specifications runs for EstimateSpan hours
EstimateSpan == 20

Years == MinYear .. (MinYear + YearSpan)

----------------------------------------------------------------------------
(* The built-in Date of the JavaScript engine, at day precision *)

\* F applied to the value of x, with x evaluated once: a local variable
\* assigned once and read several times
Once(x, F(_)) == CHOOSE r \in {F(v) : v \in {x}} : TRUE

\* day number of the civil date y-m-d, m in 1..12 (proleptic Gregorian)
DaysFromCivil(y, m, d) ==
    Once(m, LAMBDA mm :
    Once(IF mm <= 2 THEN y - 1 ELSE y, LAMBDA yy :
    Once(yy \div 400, LAMBDA era :
    Once(yy - era * 400, LAMBDA yoe :
        LET mp  == IF mm > 2 THEN mm - 3 ELSE mm + 9
            doy == (153 * mp + 2) \div 5 + d - 1
            doe == yoe * 365 + yoe \div 4 - yoe \div 100 + doy
        IN  era * 146097 + doe - 719468))))

\* the civil date of a day number: [year, month (0..11), date (1..31)]
CivilFromDays(z) ==
    Once(z + 719468, LAMBDA zz :
    Once(zz \div 146097, LAMBDA era :
    Once(zz - era * 146097, LAMBDA doe :
    Once((doe - doe \div 1460 + doe \div 36524 - doe \div 146096) \div 365,
         LAMBDA yoe :
    Once(doe - (365 * yoe + yoe \div 4 - yoe \div 100), LAMBDA doy :
    Once((5 * doy + 2) \div 153, LAMBDA mp :
        LET d == doy - (153 * mp + 2) \div 5 + 1
            m == IF mp < 10 THEN mp + 3 ELSE mp - 9
            y == yoe + era * 400 + (IF m <= 2 THEN 1 ELSE 0)
        IN  [year |-> y, month |-> m - 1, date |-> d]))))))

\* new Date(year, month, date): month is 0-based, an out-of-range date or
\* month rolls over into the neighbouring month or year
NewDate(year, month, date) ==
    Once(month, LAMBDA m :
        DaysFromCivil(year + (m \div 12), (m % 12) + 1, 1) + (date - 1))

getFullYear(date) == CivilFromDays(date).year
getMonth(date) == CivilFromDays(date).month
getDate(date) == CivilFromDays(date).date
\* Date.prototype.getDay: 0 = Sunday .. 6 = Saturday (1970-01-01: Thursday)
getDay(date) == (date + 4) % 7

\* String(n).padStart(2, '0')
padStart2(n) ==
    Once(ToString(n), LAMBDA str : IF Len(str) < 2 THEN "0" \o str ELSE str)

\* Array.prototype.includes / indexOf(...) !== -1
includes(arr, x) == \E i \in DOMAIN arr : arr[i] = x

----------------------------------------------------------------------------
(* Holiday Calculator (client utility, dynamic holidays) *)

\* a mutant of getNthWeekdayOfMonth: a negative difference is not wrapped
getNthWeekdayOfMonth_NoWrap(year, month, dayOfWeek, occurrence) ==
    Once(NewDate(year, month, 1), LAMBDA firstDay :
        LET firstDayOfWeek == getDay(firstDay)
            daysUntilFirst == dayOfWeek - firstDayOfWeek
            date           == 1 + daysUntilFirst + (occurrence - 1) * 7
        IN  NewDate(year, month, date))

getNthWeekdayOfMonth(year, month, dayOfWeek, occurrence) ==
    Once(NewDate(year, month, 1), LAMBDA firstDay :
        LET firstDayOfWeek == getDay(firstDay)
            diff           == dayOfWeek - firstDayOfWeek
            daysUntilFirst == IF diff < 0 THEN diff + 7 ELSE diff
            date           == 1 + daysUntilFirst + (occurrence - 1) * 7
        IN  NewDate(year, month, date))

getLastWeekdayOfMonth(year, month, dayOfWeek) ==
    Once(NewDate(year, month + 1, 0), LAMBDA lastDay :
        LET lastDayOfWeek  == getDay(lastDay)
            diff           == lastDayOfWeek - dayOfWeek
            daysToSubtract == IF diff < 0 THEN diff + 7 ELSE diff
        IN  NewDate(year, month + 1, 0 - daysToSubtract))

\* a mutant of getObservedDate: a Sunday holiday is left on the Sunday
getObservedDate_NoSunday(date) ==
    Once(date, LAMBDA holiday :
        LET dayOfWeek == getDay(holiday)
        IN  IF dayOfWeek = 6
            THEN NewDate(getFullYear(holiday), getMonth(holiday),
                         getDate(holiday) - 1)
            ELSE holiday)

getObservedDate(date) ==
    Once(date, LAMBDA holiday :
        LET dayOfWeek == getDay(holiday)
        IN  IF dayOfWeek = 6
            THEN NewDate(getFullYear(holiday), getMonth(holiday),
                         getDate(holiday) - 1)
            ELSE IF dayOfWeek = 0
            THEN NewDate(getFullYear(holiday), getMonth(holiday),
                         getDate(holiday) + 1)
            ELSE holiday)

formatDateStringInternal(date) ==
    Once(CivilFromDays(date), LAMBDA fields :
        LET year  == fields.year
            month == padStart2(fields.month + 1)
            day   == padStart2(fields.date)
        IN  ToString(year) \o "-" \o month \o "-" \o day)

\* a mutant of calculateHolidaysForYear: Presidents Day computed in month 0
calculateHolidaysForYear_DupMonth(year) ==
    << formatDateStringInternal(getObservedDate(NewDate(year, 0, 1))),
       formatDateStringInternal(getNthWeekdayOfMonth(year, 0, 1, 3)),
       formatDateStringInternal(getNthWeekdayOfMonth(year, 0, 1, 3)),
       formatDateStringInternal(getLastWeekdayOfMonth(year, 4, 1)),
       formatDateStringInternal(getObservedDate(NewDate(year, 6, 4))),
       formatDateStringInternal(getNthWeekdayOfMonth(year, 8, 1, 1)),
       formatDateStringInternal(getNthWeekdayOfMonth(year, 9, 1, 2)),
       formatDateStringInternal(getObservedDate(NewDate(year, 10, 11))),
       formatDateStringInternal(getNthWeekdayOfMonth(year, 10, 4, 4)),
       formatDateStringInternal(getObservedDate(NewDate(year, 11, 25))) >>

\* the array in push order: New Year, MLK, Presidents, Memorial,
\* Independence, Labor, Columbus, Veterans, Thanksgiving, Christmas
calculateHolidaysForYear(year) ==
    << formatDateStringInternal(getObservedDate(NewDate(year, 0, 1))),
       formatDateStringInternal(getNthWeekdayOfMonth(year, 0, 1, 3)),
       formatDateStringInternal(getNthWeekdayOfMonth(year, 1, 1, 3)),
       formatDateStringInternal(getLastWeekdayOfMonth(year, 4, 1)),
       formatDateStringInternal(getObservedDate(NewDate(year, 6, 4))),
       formatDateStringInternal(getNthWeekdayOfMonth(year, 8, 1, 1)),
       formatDateStringInternal(getNthWeekdayOfMonth(year, 9, 1, 2)),
       formatDateStringInternal(getObservedDate(NewDate(year, 10, 11))),
       formatDateStringInternal(getNthWeekdayOfMonth(year, 10, 4, 4)),
       formatDateStringInternal(getObservedDate(NewDate(year, 11, 25))) >>

\* a mutant of getHolidaysForYear: the cache holds one year at a time
getHolidaysForYear_OneYear(cache, year) ==
    Once(IF year \in DOMAIN cache
         THEN cache
         ELSE (year :> calculateHolidaysForYear(year)),
         LAMBDA after : [cache |-> after, value |-> after[year]])

\* getHolidaysForYear on a given cache: the cache after the call and the
\* array returned
getHolidaysForYear(cache, year) ==
    Once(IF year \in DOMAIN cache
         THEN cache
         ELSE cache @@ (year :> calculateHolidaysForYear(year)),
         LAMBDA after : [cache |-> after, value |-> after[year]])

isHolidayDynamic(cache, date) ==
    Once(getFullYear(date), LAMBDA year :
        Once(getHolidaysForYear(cache, year), LAMBDA holidays :
            LET dateStr == formatDateStringInternal(date)
            IN  [cache |-> holidays.cache,
                 value |-> includes(holidays.value, dateStr)]))

isHoliday(cache, date) == isHolidayDynamic(cache, date)

----------------------------------------------------------------------------
(* Business-Day Calendar (client utility, dynamic holidays) *)

\* a mutant of isBusinessDay: the holiday check is dropped
isBusinessDay_NoHoliday(cache, date) ==
    LET dayOfWeek == getDay(date)
    IN  [cache |-> cache, value |-> ~(dayOfWeek = 0 \/ dayOfWeek = 6)]

isBusinessDay(cache, date) ==
    LET dayOfWeek == getDay(date)
    IN  IF dayOfWeek = 0 \/ dayOfWeek = 6
        THEN [cache |-> cache, value |-> FALSE]
        ELSE Once(isHoliday(cache, date),
                  LAMBDA h : [cache |-> h.cache, value |-> ~h.value])

\* the while loop of getNextBusinessDay, entered with nextDay = date + 1
RECURSIVE getNextBusinessDay_loop(_, _)
getNextBusinessDay_loop(cache, nextDay) ==
    Once(isBusinessDay(cache, nextDay),
         LAMBDA b : IF ~b.value
                    THEN getNextBusinessDay_loop(b.cache, nextDay + 1)
                    ELSE [cache |-> b.cache, value |-> nextDay])

\* a mutant of getNextBusinessDay: the search starts on the date itself
getNextBusinessDay_FromSame(cache, date) == getNextBusinessDay_loop(cache, date)

getNextBusinessDay(cache, date) == getNextBusinessDay_loop(cache, date + 1)

\* the while loop of addBusinessDays
RECURSIVE addBusinessDays_loop(_, _, _, _)
addBusinessDays_loop(cache, currentDate, daysAdded, businessDays) ==
    IF daysAdded < businessDays
    THEN Once(isBusinessDay(cache, currentDate + 1),
              LAMBDA b : addBusinessDays_loop(
                            b.cache, currentDate + 1,
                            IF b.value THEN daysAdded + 1 ELSE daysAdded,
                            businessDays))
    ELSE [cache |-> cache, value |-> currentDate]

\* a mutant of addBusinessDays: every calendar day is counted
addBusinessDays_Calendar(cache, startDate, businessDays) ==
    [cache |-> cache, value |-> startDate + businessDays]

addBusinessDays(cache, startDate, businessDays) ==
    addBusinessDays_loop(cache, startDate, 0, businessDays)

----------------------------------------------------------------------------
(* JavaScript values and the built-ins applied to a ZIP code *)

JSNull == [type |-> "null"]
JSUndefined == [type |-> "undefined"]
\* a string the code takes apart: its characters
JSChars(chars) == [type |-> "string", chars |-> chars]
\* a string the code only compares: a shipping-method identifier
JSText(text) == [type |-> "string", text |-> text]
JSNumber(n) == [type |-> "number", value |-> n]

\* the result of a numeric conversion: NaN, or the integer n
NaN == [nan |-> TRUE, n |-> 0]
Number(n) == [nan |-> FALSE, n |-> n]

Digits == {"0", "1", "2", "3", "4", "5", "6", "7", "8", "9"}

DigitValue(c) ==
    CASE c = "0" -> 0 [] c = "1" -> 1 [] c = "2" -> 2 [] c = "3" -> 3
      [] c = "4" -> 4 [] c = "5" -> 5 [] c = "6" -> 6 [] c = "7" -> 7
      [] c = "8" -> 8 [] c = "9" -> 9

RECURSIVE DecimalValue(_)
DecimalValue(chars) ==
    IF chars = <<>> THEN 0
    ELSE 10 * DecimalValue(SubSeq(chars, 1, Len(chars) - 1))
            + DigitValue(chars[Len(chars)])

\* the number of leading characters of chars that lie in the set S
LeadingIn(chars, S) ==
    CHOOSE k \in 0 .. Len(chars) :
        /\ \A i \in 1 .. k : chars[i] \in S
        /\ k < Len(chars) => chars[k + 1] \notin S

\* parseInt(string, 10) on the characters of a string: white space is
\* skipped, one sign is taken, then the longest run of digits; NaN when
\* that run is empty
ParseIntChars(chars) ==
    LET trimmed  == SubSeq(chars, LeadingIn(chars, {" "}) + 1, Len(chars))
        signed   == trimmed # <<>> /\ trimmed[1] \in {"+", "-"}
        body     == IF signed THEN Tail(trimmed) ELSE trimmed
        run      == SubSeq(body, 1, LeadingIn(body, Digits))
    IN  IF run = <<>> THEN NaN
        ELSE IF signed /\ trimmed[1] = "-" THEN Number(0 - DecimalValue(run))
        ELSE Number(DecimalValue(run))

\* parseInt(value, 10): the argument is first converted to a string
parseInt(value) ==
    CASE value.type = "string" -> ParseIntChars(value.chars)
      [] value.type = "number" -> Number(value.value)
      [] OTHER -> NaN

isNaN(x) == x.nan

\* !value: the falsy values among those modelled
Falsy(value) ==
    \/ value.type \in {"null", "undefined"}
    \/ value.type = "string" /\ value \in {JSChars(<<>>), JSText("")}
    \/ value.type = "number" /\ value.value = 0

\* string.replace(/\D/g, '')
StripNonDigits(chars) == SelectSeq(chars, LAMBDA c : c \in Digits)

Min(a, b) == IF a < b THEN a ELSE b

----------------------------------------------------------------------------
(* Transit resolver and validation: server helper *)

\* a mutant of Helper_getTransitDays: the first range has no lower end
Helper_getTransitDays_NoLowerEnd(destinationZip) ==
    LET parsed == parseInt(destinationZip)
        zipNum == parsed.n
    IN  IF isNaN(parsed) THEN 5
        ELSE IF zipNum <= 19999 THEN 1
        ELSE IF zipNum >= 20000 /\ zipNum <= 39999 THEN 2
        ELSE IF zipNum >= 40000 /\ zipNum <= 59999 THEN 3
        ELSE IF zipNum >= 60000 /\ zipNum <= 79999 THEN 4
        ELSE IF zipNum >= 80000 /\ zipNum <= 99999 THEN 5
        ELSE 5

\* a mutant of Helper_getTransitDays: the first range ends below 19999
Helper_getTransitDays_OffByOne(destinationZip) ==
    LET parsed == parseInt(destinationZip)
        zipNum == parsed.n
    IN  IF isNaN(parsed) THEN 5
        ELSE IF zipNum >= 0 /\ zipNum < 19999 THEN 1
        ELSE IF zipNum >= 20000 /\ zipNum <= 39999 THEN 2
        ELSE IF zipNum >= 40000 /\ zipNum <= 59999 THEN 3
        ELSE IF zipNum >= 60000 /\ zipNum <= 79999 THEN 4
        ELSE IF zipNum >= 80000 /\ zipNum <= 99999 THEN 5
        ELSE 5

Helper_getTransitDays(destinationZip) ==
    LET parsed == parseInt(destinationZip)
        zipNum == parsed.n
    IN  IF isNaN(parsed) THEN 5
        ELSE IF zipNum >= 0 /\ zipNum <= 19999 THEN 1
        ELSE IF zipNum >= 20000 /\ zipNum <= 39999 THEN 2
        ELSE IF zipNum >= 40000 /\ zipNum <= 59999 THEN 3
        ELSE IF zipNum >= 60000 /\ zipNum <= 79999 THEN 4
        ELSE IF zipNum >= 80000 /\ zipNum <= 99999 THEN 5
        ELSE 5

\* a mutant of Helper_getTransitDaysForShippingMethod: express is a flat 2
Helper_getTransitDaysForShippingMethod_Flat(shippingMethodId, destinationZip) ==
    LET baseTransitDays == Helper_getTransitDays(destinationZip)
    IN  CASE shippingMethodId \in {JSText("overnight"), JSText("express-overnight")}
                -> 1
          [] shippingMethodId \in {JSText("express"), JSText("2-day")}
                -> 2
          [] OTHER -> baseTransitDays

Helper_getTransitDaysForShippingMethod(shippingMethodId, destinationZip) ==
    LET baseTransitDays == Helper_getTransitDays(destinationZip)
    IN  CASE shippingMethodId \in {JSText("overnight"), JSText("express-overnight")}
                -> 1
          [] shippingMethodId \in {JSText("express"), JSText("2-day")}
                -> Min(2, baseTransitDays)
          [] OTHER -> baseTransitDays

\* a mutant of Helper_isValidZipCode: the length of the raw string is tested
Helper_isValidZipCode_Raw(zipCode) ==
    IF Falsy(zipCode) \/ zipCode.type # "string"
    THEN FALSE
    ELSE Len(zipCode.chars) = 5

Helper_isValidZipCode(zipCode) ==
    IF Falsy(zipCode) \/ zipCode.type # "string"
    THEN FALSE
    ELSE LET cleaned == StripNonDigits(zipCode.chars)
         IN  Len(cleaned) = 5

----------------------------------------------------------------------------
(* Transit resolver and validation: client utility *)

getTransitDays(destinationZip) ==
    LET parsed == parseInt(destinationZip)
        zipNum == parsed.n
    IN  IF isNaN(parsed) THEN 5
        ELSE IF zipNum >= 0 /\ zipNum <= 19999 THEN 1
        ELSE IF zipNum >= 20000 /\ zipNum <= 39999 THEN 2
        ELSE IF zipNum >= 40000 /\ zipNum <= 59999 THEN 3
        ELSE IF zipNum >= 60000 /\ zipNum <= 79999 THEN 4
        ELSE IF zipNum >= 80000 /\ zipNum <= 99999 THEN 5
        ELSE 5

getTransitDaysForShippingMethod(shippingMethodId, destinationZip) ==
    LET baseTransitDays == getTransitDays(destinationZip)
    IN  CASE shippingMethodId \in {JSText("overnight"), JSText("express-overnight")}
                -> 1
          [] shippingMethodId \in {JSText("express"), JSText("2-day")}
                -> Min(2, baseTransitDays)
          [] OTHER -> baseTransitDays

isValidZipCode(zipCode) ==
    IF Falsy(zipCode) \/ zipCode.type # "string"
    THEN FALSE
    ELSE LET cleaned == StripNonDigits(zipCode.chars)
         IN  Len(cleaned) = 5

----------------------------------------------------------------------------
(* The wall clock in a civil time zone: what Date, Intl and dw.util.Calendar
   report for an instant.  The zones of the model keep whole-hour offsets;
   New York and Los Angeles keep United States daylight saving time (from
   02:00 on the second Sunday of March to 02:00 on the first Sunday of
   November, local time). *)

Zones == {"America/New_York", "America/Los_Angeles", "UTC", "Asia/Tokyo"}

StandardOffset(zone) ==
    CASE zone = "America/New_York" -> 0 - 5
      [] zone = "America/Los_Angeles" -> 0 - 8
      [] zone = "UTC" -> 0
      [] zone = "Asia/Tokyo" -> 9

ObservesDST(zone) == zone \in {"America/New_York", "America/Los_Angeles"}

\* the first day on or after day that falls on weekday dow (0 = Sunday)
OnOrAfter(day, dow) == day + ((dow - getDay(day)) % 7)

InDST(zone, t) ==
    LET year  == getFullYear(t \div 24)
        std   == StandardOffset(zone)
        start == OnOrAfter(DaysFromCivil(year, 3, 8), 0) * 24 + 2 - std
        end   == OnOrAfter(DaysFromCivil(year, 11, 1), 0) * 24 + 2 - (std + 1)
    IN  ObservesDST(zone) /\ t >= start /\ t < end

\* hours east of UTC of the zone at instant t
UtcOffset(zone, t) == StandardOffset(zone) + (IF InDST(zone, t) THEN 1 ELSE 0)

\* the civil day and the hour of day of instant t in the zone
LocalDay(zone, t) == (t + UtcOffset(zone, t)) \div 24
LocalHour(zone, t) == (t + UtcOffset(zone, t)) % 24

DigitChar(n) ==
    CASE n = 0 -> "0" [] n = 1 -> "1" [] n = 2 -> "2" [] n = 3 -> "3"
      [] n = 4 -> "4" [] n = 5 -> "5" [] n = 6 -> "6" [] n = 7 -> "7"
      [] n = 8 -> "8" [] n = 9 -> "9"

\* now.toLocaleString('en-US', {timeZone: 'America/New_York',
\* hour: 'numeric', hour12: false}): the two-digit hour of the New York
\* wall clock.  hour12: false selects the hour cycle h23 (00..23) or, in
\* engines that resolve it by the older ECMA-402 rule for a 12-hour locale,
\* h24 (01..24, midnight written 24).
toLocaleString(e, t) ==
    LET h     == LocalHour("America/New_York", t)
        shown == IF e.hourCycle = "h24" /\ h = 0 THEN 24 ELSE h
    IN  << DigitChar(shown \div 10), DigitChar(shown % 10) >>

----------------------------------------------------------------------------
(* Ship-date resolver: client utility, dynamic holidays *)

CONFIG == [CUTOFF_HOUR_EST |-> 14, ORIGIN_ZIP |-> "10001", EST_OFFSET |-> 0 - 5]

\* a mutant of getShipDate: before the cutoff today is returned without
\* asking whether it is a business day
getShipDate_NoDayCheck(cache, e, t) ==
    Once(IF e.timeZoneApi
         THEN parseInt(JSChars(toLocaleString(e, t))).n
         ELSE LocalHour(e.zone, t), LAMBDA estHour :
    Once(LocalDay(e.zone, t), LAMBDA today :
        IF estHour < 14
        THEN [cache |-> cache, estHour |-> estHour, today |-> today,
              value |-> today]
        ELSE Once(getNextBusinessDay(cache, today), LAMBDA next :
                [cache |-> next.cache, estHour |-> estHour, today |-> today,
                 value |-> next.value])))

\* getShipDate with the clock read at instant t in process e, on a given
\* cache: the hour compared with the cutoff, today, the date returned
getShipDate(cache, e, t) ==
    Once(IF e.timeZoneApi
         THEN parseInt(JSChars(toLocaleString(e, t))).n
         ELSE LocalHour(e.zone, t), LAMBDA estHour :
    Once(LocalDay(e.zone, t), LAMBDA now :
    Once(NewDate(getFullYear(now), getMonth(now), getDate(now)), LAMBDA today :
    Once(IF estHour < CONFIG.CUTOFF_HOUR_EST
         THEN isBusinessDay(cache, today)
         ELSE [cache |-> cache, value |-> FALSE], LAMBDA open :
        IF open.value
        THEN [cache |-> open.cache, estHour |-> estHour, today |-> today,
              value |-> today]
        ELSE Once(getNextBusinessDay(open.cache, today), LAMBDA next :
                [cache |-> next.cache, estHour |-> estHour, today |-> today,
                 value |-> next.value])))))

----------------------------------------------------------------------------
(* Client utility with the static holiday list *)

Static_CONFIG ==
    [CUTOFF_HOUR_EST |-> 14, ORIGIN_ZIP |-> "10001", EST_OFFSET |-> 0 - 5]

Static_HOLIDAYS ==
    << "2024-01-01", "2024-01-15", "2024-02-19", "2024-05-27", "2024-07-04",
       "2024-09-02", "2024-10-14", "2024-11-11", "2024-11-28", "2024-12-25",
       "2025-01-01", "2025-01-20", "2025-02-17", "2025-05-26", "2025-07-04",
       "2025-09-01", "2025-10-13", "2025-11-11", "2025-11-27", "2025-12-25" >>

Static_formatDateString(date) ==
    Once(CivilFromDays(date), LAMBDA fields :
        LET year  == fields.year
            month == padStart2(fields.month + 1)
            day   == padStart2(fields.date)
        IN  ToString(year) \o "-" \o month \o "-" \o day)

Static_isHoliday(date) ==
    LET dateStr == Static_formatDateString(date)
    IN  includes(Static_HOLIDAYS, dateStr)

Static_isBusinessDay(date) ==
    LET dayOfWeek == getDay(date)
    IN  IF dayOfWeek = 0 \/ dayOfWeek = 6
        THEN FALSE
        ELSE ~Static_isHoliday(date)

RECURSIVE Static_getNextBusinessDay_loop(_)
Static_getNextBusinessDay_loop(nextDay) ==
    IF ~Static_isBusinessDay(nextDay)
    THEN Static_getNextBusinessDay_loop(nextDay + 1)
    ELSE nextDay

Static_getNextBusinessDay(date) == Static_getNextBusinessDay_loop(date + 1)

\* getShipDate of the static version: the hour is taken at the fixed
\* offset EST_OFFSET from UTC, through a Date shifted by the local offset
Static_getShipDate(e, t) ==
    LET estOffset == Static_CONFIG.EST_OFFSET
        utc       == t - UtcOffset(e.zone, t)
    IN  Once(utc + estOffset, LAMBDA estTime :
        Once(LocalHour(e.zone, estTime), LAMBDA estHour :
        Once(LocalDay(e.zone, t), LAMBDA now :
        Once(NewDate(getFullYear(now), getMonth(now), getDate(now)),
             LAMBDA today :
            IF /\ estHour < Static_CONFIG.CUTOFF_HOUR_EST
               /\ Static_isBusinessDay(today)
            THEN [estHour |-> estHour, today |-> today, value |-> today]
            ELSE [estHour |-> estHour, today |-> today,
                  value |-> Static_getNextBusinessDay(today)]))))

----------------------------------------------------------------------------
(* Business-day calendar and ship-date resolver: server helper *)

Helper_CONFIG ==
    [CUTOFF_HOUR_EST |-> 14, ORIGIN_ZIP |-> "10001", EST_OFFSET |-> 0 - 5]

Helper_HOLIDAYS ==
    << "2024-01-01", "2024-01-15", "2024-02-19", "2024-05-27", "2024-07-04",
       "2024-09-02", "2024-10-14", "2024-11-11", "2024-11-28", "2024-12-25",
       "2025-01-01", "2025-01-20", "2025-02-17", "2025-05-26", "2025-07-04",
       "2025-09-01", "2025-10-13", "2025-11-11", "2025-11-27", "2025-12-25" >>

\* dw.util.Calendar day-of-week numbers
Calendar_SUNDAY == 1
Calendar_SATURDAY == 7
\* calendar.get(Calendar.DAY_OF_WEEK): 1 = Sunday .. 7 = Saturday
Calendar_DAY_OF_WEEK(calendar) == getDay(calendar) + 1

Helper_formatDateString(calendar) ==
    Once(CivilFromDays(calendar), LAMBDA fields :
        LET year  == fields.year
            month == padStart2(fields.month + 1)
            day   == padStart2(fields.date)
        IN  ToString(year) \o "-" \o month \o "-" \o day)

Helper_isHoliday(calendar) ==
    LET dateStr == Helper_formatDateString(calendar)
    IN  includes(Helper_HOLIDAYS, dateStr)

\* a mutant of Helper_isBusinessDay: Friday is not a business day either
Helper_isBusinessDay_FridayOff(calendar) ==
    LET dayOfWeek == Calendar_DAY_OF_WEEK(calendar)
    IN  IF dayOfWeek = Calendar_SUNDAY \/ dayOfWeek = Calendar_SATURDAY
           \/ dayOfWeek = Calendar_SATURDAY - 1
        THEN FALSE
        ELSE ~Helper_isHoliday(calendar)

Helper_isBusinessDay(calendar) ==
    LET dayOfWeek == Calendar_DAY_OF_WEEK(calendar)
    IN  IF dayOfWeek = Calendar_SUNDAY \/ dayOfWeek = Calendar_SATURDAY
        THEN FALSE
        ELSE ~Helper_isHoliday(calendar)

RECURSIVE Helper_getNextBusinessDay_loop(_)
Helper_getNextBusinessDay_loop(nextDay) ==
    IF ~Helper_isBusinessDay(nextDay)
    THEN Helper_getNextBusinessDay_loop(nextDay + 1)
    ELSE nextDay

Helper_getNextBusinessDay(calendar) ==
    Helper_getNextBusinessDay_loop(calendar + 1)

\* the while loop of the helper's addBusinessDays
RECURSIVE Helper_addBusinessDays_loop(_, _, _)
Helper_addBusinessDays_loop(currentDate, daysAdded, businessDays) ==
    IF daysAdded < businessDays
    THEN Helper_addBusinessDays_loop(
            currentDate + 1,
            IF Helper_isBusinessDay(currentDate + 1)
            THEN daysAdded + 1 ELSE daysAdded,
            businessDays)
    ELSE currentDate

Helper_addBusinessDays(startDate, businessDays) ==
    Helper_addBusinessDays_loop(startDate, 0, businessDays)

\* getShipDate of the helper: estCalendar is created at instant tHour, today
\* at instant tToday (each new Calendar() reads the clock); a Calendar
\* reports its fields in the zone of the process until setTimeZone
Helper_getShipDate(e, tHour, tToday) ==
    Once(LocalHour("America/New_York", tHour), LAMBDA estHour :
    Once(LocalDay(e.zone, tToday), LAMBDA today :
        IF /\ estHour < Helper_CONFIG.CUTOFF_HOUR_EST
           /\ Helper_isBusinessDay(today)
        THEN [estHour |-> estHour, today |-> today, value |-> today]
        ELSE [estHour |-> estHour, today |-> today,
              value |-> Helper_getNextBusinessDay(today)]))

----------------------------------------------------------------------------
(* Delivery estimator: calculateDeliveryDate and
   getDeliveryEstimatesForAllMethods, client utility and server helper *)

months ==
    << "January", "February", "March", "April", "May", "June", "July",
       "August", "September", "October", "November", "December" >>

days ==
    << "Sunday", "Monday", "Tuesday", "Wednesday", "Thursday", "Friday",
       "Saturday" >>

\* a mutant of suffix: the last digit alone decides
suffix_LastDigit(dayOfMonth) ==
    IF dayOfMonth % 10 = 1 THEN "st"
    ELSE IF dayOfMonth % 10 = 2 THEN "nd"
    ELSE IF dayOfMonth % 10 = 3 THEN "rd"
    ELSE "th"

\* the ordinal suffix of a day of the month
suffix(dayOfMonth) ==
    IF dayOfMonth = 1 \/ dayOfMonth = 21 \/ dayOfMonth = 31 THEN "st"
    ELSE IF dayOfMonth = 2 \/ dayOfMonth = 22 THEN "nd"
    ELSE IF dayOfMonth = 3 \/ dayOfMonth = 23 THEN "rd"
    ELSE "th"

\* the object calculateDeliveryDate returns, from the three values it
\* computed and the names it looked up (arrays are 0-based in the code)
estimateObject(shipDate, transitDays, deliveryDate, dayOfWeek, month, dayOfMonth) ==
    [ deliveryDate      |-> deliveryDate,
      shipDate          |-> shipDate,
      transitDays       |-> transitDays,
      formattedDate     |-> month \o " " \o ToString(dayOfMonth)
                                \o suffix(dayOfMonth),
      formattedDateFull |-> dayOfWeek \o ", " \o month \o " "
                                \o ToString(dayOfMonth) \o suffix(dayOfMonth),
      displayMessage    |-> "Get it by " \o month \o " "
                                \o ToString(dayOfMonth) \o suffix(dayOfMonth) ]

\* a mutant of calculateDeliveryDate: the method is ignored
calculateDeliveryDate_NoMethod(cache, e, t, destinationZip, shippingMethodId) ==
    Once(getShipDate(cache, e, t), LAMBDA ship :
    Once(getTransitDays(destinationZip), LAMBDA transitDays :
    Once(addBusinessDays(ship.cache, ship.value, transitDays), LAMBDA delivery :
    Once(CivilFromDays(delivery.value), LAMBDA fields :
        [ cache |-> delivery.cache,
          value |-> estimateObject(ship.value, transitDays, delivery.value,
                                   days[getDay(delivery.value) + 1],
                                   months[fields.month + 1], fields.date) ]))))

\* calculateDeliveryDate of the client utility, with the clock read at
\* instant t in process e, on a given cache
calculateDeliveryDate(cache, e, t, destinationZip, shippingMethodId) ==
    Once(getShipDate(cache, e, t), LAMBDA ship :
    Once(IF ~Falsy(shippingMethodId)
         THEN getTransitDaysForShippingMethod(shippingMethodId, destinationZip)
         ELSE getTransitDays(destinationZip), LAMBDA transitDays :
    Once(addBusinessDays(ship.cache, ship.value, transitDays), LAMBDA delivery :
    Once(CivilFromDays(delivery.value), LAMBDA fields :
        [ cache |-> delivery.cache,
          value |-> estimateObject(ship.value, transitDays, delivery.value,
                                   days[getDay(delivery.value) + 1],
                                   months[fields.month + 1], fields.date) ]))))

\* a mutant of the helper's calculateDeliveryDate: transit days are
\* counted in calendar days
Helper_calculateDeliveryDate_Calendar(e, tHour, tToday, destinationZip, shippingMethodId) ==
    Once(Helper_getShipDate(e, tHour, tToday).value, LAMBDA shipDate :
    Once(IF ~Falsy(shippingMethodId)
         THEN Helper_getTransitDaysForShippingMethod(shippingMethodId,
                                                     destinationZip)
         ELSE Helper_getTransitDays(destinationZip), LAMBDA transitDays :
    Once(shipDate + transitDays, LAMBDA deliveryDate :
    Once(CivilFromDays(deliveryDate), LAMBDA fields :
        estimateObject(shipDate, transitDays, deliveryDate,
                       days[(Calendar_DAY_OF_WEEK(deliveryDate) - 1) + 1],
                       months[fields.month + 1], fields.date)))))

\* calculateDeliveryDate of the helper; its getShipDate reads the clock at
\* tHour and at tToday
Helper_calculateDeliveryDate(e, tHour, tToday, destinationZip, shippingMethodId) ==
    Once(Helper_getShipDate(e, tHour, tToday).value, LAMBDA shipDate :
    Once(IF ~Falsy(shippingMethodId)
         THEN Helper_getTransitDaysForShippingMethod(shippingMethodId,
                                                     destinationZip)
         ELSE Helper_getTransitDays(destinationZip), LAMBDA transitDays :
    Once(Helper_addBusinessDays(shipDate, transitDays), LAMBDA deliveryDate :
    Once(CivilFromDays(deliveryDate), LAMBDA fields :
        estimateObject(shipDate, transitDays, deliveryDate,
                       days[(Calendar_DAY_OF_WEEK(deliveryDate) - 1) + 1],
                       months[fields.month + 1], fields.date)))))

\* the shipping methods offered; a price is held in cents
shippingMethods ==
    << [id |-> "standard", name |-> "Standard Shipping", price |-> 599],
       [id |-> "express", name |-> "Express Shipping", price |-> 1299],
       [id |-> "overnight", name |-> "Overnight", price |-> 2499] >>

\* the entry that the map callback builds from a method and its estimate
estimateEntry(method, estimate) ==
    Once(estimate, LAMBDA est :
        [ shippingMethodId   |-> method.id,
          shippingMethodName |-> method.name,
          price              |-> method.price,
          transitDays        |-> est.transitDays,
          deliveryDate       |-> est.formattedDate,
          displayMessage     |-> est.displayMessage ])

\* getDeliveryEstimatesForAllMethods of the client utility: one call of
\* calculateDeliveryDate per method, in order, the k-th reading the clock
\* at instant at[k]
getDeliveryEstimatesForAllMethods(cache, e, at, destinationZip) ==
    Once(calculateDeliveryDate(cache, e, at[1], destinationZip,
                               JSText(shippingMethods[1].id)), LAMBDA first :
    Once(calculateDeliveryDate(first.cache, e, at[2], destinationZip,
                               JSText(shippingMethods[2].id)), LAMBDA second :
    Once(calculateDeliveryDate(second.cache, e, at[3], destinationZip,
                               JSText(shippingMethods[3].id)), LAMBDA third :
        [ cache |-> third.cache,
          value |-> << estimateEntry(shippingMethods[1], first.value),
                       estimateEntry(shippingMethods[2], second.value),
                       estimateEntry(shippingMethods[3], third.value) >> ])))

\* a mutant of the helper's getDeliveryEstimatesForAllMethods: every entry
\* carries the estimate of the first method
Helper_getDeliveryEstimatesForAllMethods_First(e, at, destinationZip) ==
    Once(Helper_calculateDeliveryDate(e, at[1], at[2], destinationZip,
                                      JSText(shippingMethods[1].id)),
         LAMBDA first :
            << estimateEntry(shippingMethods[1], first),
               estimateEntry(shippingMethods[2], first),
               estimateEntry(shippingMethods[3], first) >>)

\* getDeliveryEstimatesForAllMethods of the helper: the k-th call reads the
\* clock at at[2k - 1] (the hour) and at[2k] (today)
Helper_getDeliveryEstimatesForAllMethods(e, at, destinationZip) ==
    << estimateEntry(shippingMethods[1],
            Helper_calculateDeliveryDate(e, at[1], at[2], destinationZip,
                                         JSText(shippingMethods[1].id))),
       estimateEntry(shippingMethods[2],
            Helper_calculateDeliveryDate(e, at[3], at[4], destinationZip,
                                         JSText(shippingMethods[2].id))),
       estimateEntry(shippingMethods[3],
            Helper_calculateDeliveryDate(e, at[5], at[6], destinationZip,
                                         JSText(shippingMethods[3].id))) >>

----------------------------------------------------------------------------
(* Controller PromiseDelivery: the endpoints GetEstimate and
   GetAllEstimates. A handler is given by the calls it makes, in order:
   calls of the helper, res.json(body) and next(); a failure of the
   calculation is an exception thrown by the helper call *)

INVALID_ZIP ==
    [ success   |-> FALSE,
      error     |-> "Invalid ZIP code. Please enter a valid 5-digit US ZIP code.",
      errorCode |-> "INVALID_ZIP" ]

GetEstimate_CALCULATION_ERROR ==
    [ success   |-> FALSE,
      error     |-> "Unable to calculate delivery date. Please try again.",
      errorCode |-> "CALCULATION_ERROR" ]

GetAllEstimates_CALCULATION_ERROR ==
    [ success   |-> FALSE,
      error     |-> "Unable to calculate delivery dates. Please try again.",
      errorCode |-> "CALCULATION_ERROR" ]

helperCall(name) == [call |-> name]

resJson(body) == [call |-> "res.json", body |-> body]

nextCall == [call |-> "next"]

\* an exception that leaves the handler
uncaught == [call |-> "throw"]

\* a || b of JavaScript
OrElse(a, b) == IF Falsy(a) THEN b ELSE a

\* a mutant of GetEstimate: the calculation is not inside try / catch
GetEstimate_NoTry(e, tHour, tToday, querystring, throws) ==
    IF ~Helper_isValidZipCode(querystring.zipCode)
    THEN << helperCall("isValidZipCode"), resJson(INVALID_ZIP), nextCall >>
    ELSE IF throws
    THEN << helperCall("isValidZipCode"), helperCall("calculateDeliveryDate"),
            uncaught >>
    ELSE Once(Helper_calculateDeliveryDate(e, tHour, tToday,
                 querystring.zipCode, querystring.shippingMethodId),
         LAMBDA estimate :
            << helperCall("isValidZipCode"),
               helperCall("calculateDeliveryDate"),
               resJson([ success          |-> TRUE,
                         zipCode          |-> querystring.zipCode,
                         shippingMethodId |->
                             OrElse(querystring.shippingMethodId,
                                    JSText("standard")),
                         transitDays      |-> estimate.transitDays,
                         deliveryDate     |-> estimate.formattedDate,
                         deliveryDateFull |-> estimate.formattedDateFull,
                         displayMessage   |-> estimate.displayMessage ]),
               nextCall >>)

\* a mutant of GetEstimate: the ZIP code is not validated
GetEstimate_NoGate(e, tHour, tToday, querystring, throws) ==
    IF throws
    THEN << helperCall("calculateDeliveryDate"),
            resJson(GetEstimate_CALCULATION_ERROR), nextCall >>
    ELSE Once(Helper_calculateDeliveryDate(e, tHour, tToday,
                 querystring.zipCode, querystring.shippingMethodId),
         LAMBDA estimate :
            << helperCall("calculateDeliveryDate"),
               resJson([ success          |-> TRUE,
                         zipCode          |-> querystring.zipCode,
                         shippingMethodId |->
                             OrElse(querystring.shippingMethodId,
                                    JSText("standard")),
                         transitDays      |-> estimate.transitDays,
                         deliveryDate     |-> estimate.formattedDate,
                         deliveryDateFull |-> estimate.formattedDateFull,
                         displayMessage   |-> estimate.displayMessage ]),
               nextCall >>)

\* a mutant of GetEstimate: the method reported is the one received
GetEstimate_NoDefault(e, tHour, tToday, querystring, throws) ==
    IF ~Helper_isValidZipCode(querystring.zipCode)
    THEN << helperCall("isValidZipCode"), resJson(INVALID_ZIP), nextCall >>
    ELSE IF throws
    THEN << helperCall("isValidZipCode"), helperCall("calculateDeliveryDate"),
            resJson(GetEstimate_CALCULATION_ERROR), nextCall >>
    ELSE Once(Helper_calculateDeliveryDate(e, tHour, tToday,
                 querystring.zipCode, querystring.shippingMethodId),
         LAMBDA estimate :
            << helperCall("isValidZipCode"),
               helperCall("calculateDeliveryDate"),
               resJson([ success          |-> TRUE,
                         zipCode          |-> querystring.zipCode,
                         shippingMethodId |-> querystring.shippingMethodId,
                         transitDays      |-> estimate.transitDays,
                         deliveryDate     |-> estimate.formattedDate,
                         deliveryDateFull |-> estimate.formattedDateFull,
                         displayMessage   |-> estimate.displayMessage ]),
               nextCall >>)

\* the handler of GetEstimate: the helper reads the clock at tHour and at
\* tToday; throws tells whether calculateDeliveryDate throws
GetEstimate(e, tHour, tToday, querystring, throws) ==
    IF ~Helper_isValidZipCode(querystring.zipCode)
    THEN << helperCall("isValidZipCode"), resJson(INVALID_ZIP), nextCall >>
    ELSE IF throws
    THEN << helperCall("isValidZipCode"), helperCall("calculateDeliveryDate"),
            resJson(GetEstimate_CALCULATION_ERROR), nextCall >>
    ELSE Once(Helper_calculateDeliveryDate(e, tHour, tToday,
                 querystring.zipCode, querystring.shippingMethodId),
         LAMBDA estimate :
            << helperCall("isValidZipCode"),
               helperCall("calculateDeliveryDate"),
               resJson([ success          |-> TRUE,
                         zipCode          |-> querystring.zipCode,
                         shippingMethodId |->
                             OrElse(querystring.shippingMethodId,
                                    JSText("standard")),
                         transitDays      |-> estimate.transitDays,
                         deliveryDate     |-> estimate.formattedDate,
                         deliveryDateFull |-> estimate.formattedDateFull,
                         displayMessage   |-> estimate.displayMessage ]),
               nextCall >>)

\* a mutant of GetAllEstimates: the failure is answered with a success
GetAllEstimates_Swallow(e, at, querystring, throws) ==
    IF ~Helper_isValidZipCode(querystring.zipCode)
    THEN << helperCall("isValidZipCode"), resJson(INVALID_ZIP), nextCall >>
    ELSE IF throws
    THEN << helperCall("isValidZipCode"),
            helperCall("getDeliveryEstimatesForAllMethods"),
            resJson([ success         |-> TRUE,
                      zipCode         |-> querystring.zipCode,
                      shippingMethods |-> <<>> ]),
            nextCall >>
    ELSE << helperCall("isValidZipCode"),
            helperCall("getDeliveryEstimatesForAllMethods"),
            resJson([ success         |-> TRUE,
                      zipCode         |-> querystring.zipCode,
                      shippingMethods |->
                          Helper_getDeliveryEstimatesForAllMethods(
                              e, at, querystring.zipCode) ]),
            nextCall >>

\* the handler of GetAllEstimates: the helper reads the clock at the six
\* instants at
GetAllEstimates(e, at, querystring, throws) ==
    IF ~Helper_isValidZipCode(querystring.zipCode)
    THEN << helperCall("isValidZipCode"), resJson(INVALID_ZIP), nextCall >>
    ELSE IF throws
    THEN << helperCall("isValidZipCode"),
            helperCall("getDeliveryEstimatesForAllMethods"),
            resJson(GetAllEstimates_CALCULATION_ERROR), nextCall >>
    ELSE << helperCall("isValidZipCode"),
            helperCall("getDeliveryEstimatesForAllMethods"),
            resJson([ success         |-> TRUE,
                      zipCode         |-> querystring.zipCode,
                      shippingMethods |->
                          Helper_getDeliveryEstimatesForAllMethods(
                              e, at, querystring.zipCode) ]),
            nextCall >>

----------------------------------------------------------------------------
(* Checkout page: the shipping-method list (ShippingMethodOptions), the
   submit handler and the summary of the shipping-methods step *)

UpperCase ==
    << "A", "B", "C", "D", "E", "F", "G", "H", "I", "J", "K", "L", "M",
       "N", "O", "P", "Q", "R", "S", "T", "U", "V", "W", "X", "Y", "Z" >>

LowerCase ==
    << "a", "b", "c", "d", "e", "f", "g", "h", "i", "j", "k", "l", "m",
       "n", "o", "p", "q", "r", "s", "t", "u", "v", "w", "x", "y", "z" >>

\* String.prototype.toLowerCase on the characters of a string
toLowerCase(chars) ==
    [i \in DOMAIN chars |->
        IF \E k \in DOMAIN UpperCase : UpperCase[k] = chars[i]
        THEN LowerCase[CHOOSE k \in DOMAIN UpperCase : UpperCase[k] = chars[i]]
        ELSE chars[i]]

\* String.prototype.includes on the characters of two strings
Includes(chars, search) ==
    \E i \in 1 .. (Len(chars) - Len(search) + 1) :
        SubSeq(chars, i, i + Len(search) - 1) = search

\* value?.toLowerCase() || '' on a string or undefined
LowerOrEmpty(value) ==
    IF value.type \in {"null", "undefined"} THEN <<>>
    ELSE toLowerCase(value.chars)

\* getPromiseMethodId(shippingMethodId, shippingMethodName = ''): an
\* undefined name is the default ''
getPromiseMethodId(shippingMethodId, shippingMethodName) ==
    LET idLower == LowerOrEmpty(shippingMethodId)
        nameLower == LowerOrEmpty(shippingMethodName)
    IN  IF \/ Includes(idLower, <<"o", "v", "e", "r", "n", "i", "g", "h", "t">>)
           \/ Includes(idLower, <<"n", "e", "x", "t", "-", "d", "a", "y">>)
           \/ Includes(nameLower, <<"o", "v", "e", "r", "n", "i", "g", "h", "t">>)
           \/ Includes(nameLower, <<"n", "e", "x", "t", "-", "d", "a", "y">>)
           \/ Includes(nameLower, <<"n", "e", "x", "t", " ", "d", "a", "y">>)
        THEN "overnight"
        ELSE IF \/ Includes(idLower, <<"e", "x", "p", "r", "e", "s", "s">>)
                \/ Includes(idLower, <<"2", "-", "d", "a", "y">>)
                \/ Includes(idLower, <<"t", "w", "o", "-", "d", "a", "y">>)
                \/ Includes(nameLower, <<"e", "x", "p", "r", "e", "s", "s">>)
                \/ Includes(nameLower, <<"2", "-", "d", "a", "y">>)
                \/ Includes(nameLower, <<"t", "w", "o", "-", "d", "a", "y">>)
                \/ Includes(nameLower, <<"2", " ", "d", "a", "y">>)
        THEN "express"
        ELSE "standard"

----------------------------------------------------------------------------
(* State machine: calls of the exported functions *)

NoCall == [op |-> "none"]

\* the process environment before any call
DefaultEnv == [zone |-> "America/New_York", timeZoneApi |-> TRUE,
               hourCycle |-> "h23"]

EmptyCache == [y \in {} |-> <<>>]

FirstCalendarDay == DaysFromCivil(2024, 12, 1)

\* the clock starts at 00:00 UTC on Monday 2024-12-23 (Christmas and New
\* Year ahead, standard time) or on Wednesday 2025-07-02 (the 4th of July
\* ahead, daylight saving time) and runs for ClockSpan hours
ClockStarts == {DaysFromCivil(2024, 12, 23) * 24, DaysFromCivil(2025, 7, 2) * 24}

ClockEnd(t) == (CHOOSE s \in ClockStarts : s <= t /\ t <= s + ClockSpan) + ClockSpan

\* the processes: a zone, whether Intl knows time zones, and the hour cycle
\* that hour12: false selects
Envs ==
    { [zone |-> z, timeZoneApi |-> TRUE, hourCycle |-> c] :
        z \in Zones, c \in {"h23", "h24"} }
    \cup { [zone |-> z, timeZoneApi |-> FALSE, hourCycle |-> "h23"] : z \in Zones }

\* getHolidaysForYear(year), exported by the client utility
CallGetHolidaysForYear(year) ==
    \E r \in {getHolidaysForYear(holidayCache, year)} :
        /\ holidayCache' = r.cache
        /\ ret' = [op |-> "getHolidaysForYear", year |-> year,
                   cached |-> year \in DOMAIN holidayCache,
                   value |-> r.value]
        /\ UNCHANGED <<clock, env, callerDate, callerZip>>

\* isBusinessDay(date), exported by the client utility
CallIsBusinessDay ==
    \E r \in {isBusinessDay(holidayCache, callerDate)} :
        /\ holidayCache' = r.cache
        /\ ret' = [op |-> "isBusinessDay", module |-> "client",
                   date |-> callerDate, value |-> r.value]
        /\ UNCHANGED <<clock, env, callerDate, callerZip>>

CallGetNextBusinessDay ==
    \E r \in {getNextBusinessDay(holidayCache, callerDate)} :
        /\ holidayCache' = r.cache
        /\ ret' = [op |-> "getNextBusinessDay", module |-> "client",
                   date |-> callerDate, value |-> r.value]
        /\ UNCHANGED <<clock, env, callerDate, callerZip>>

CallAddBusinessDays(businessDays) ==
    \E r \in {addBusinessDays(holidayCache, callerDate, businessDays)} :
        /\ holidayCache' = r.cache
        /\ ret' = [op |-> "addBusinessDays", module |-> "client",
                   date |-> callerDate, businessDays |-> businessDays,
                   value |-> r.value]
        /\ UNCHANGED <<clock, env, callerDate, callerZip>>

\* isBusinessDay(calendar), exported by the helper
Helper_CallIsBusinessDay ==
    /\ ret' = [op |-> "isBusinessDay", module |-> "helper",
               date |-> callerDate, value |-> Helper_isBusinessDay(callerDate)]
    /\ UNCHANGED <<clock, env, holidayCache, callerDate, callerZip>>

Helper_CallGetNextBusinessDay ==
    /\ ret' = [op |-> "getNextBusinessDay", module |-> "helper",
               date |-> callerDate,
               value |-> Helper_getNextBusinessDay(callerDate)]
    /\ UNCHANGED <<clock, env, holidayCache, callerDate, callerZip>>

\* addBusinessDays(startDate, businessDays), exported by the helper
Helper_CallAddBusinessDays(businessDays) ==
    /\ ret' = [op |-> "addBusinessDays", module |-> "helper",
               date |-> callerDate, businessDays |-> businessDays,
               value |-> Helper_addBusinessDays(callerDate, businessDays)]
    /\ UNCHANGED <<clock, env, holidayCache, callerDate, callerZip>>

\* the caller drops the last result and moves its Date one day on
AdvanceDate ==
    /\ callerDate < FirstCalendarDay + CalendarSpan
    /\ callerDate' = callerDate + 1
    /\ ret' = NoCall
    /\ UNCHANGED <<clock, env, holidayCache, callerZip>>

\* every string of at most MaxZipLen characters over "0", "9" and "-"
RECURSIVE StringsUpTo(_)
StringsUpTo(n) ==
    IF n = 0 THEN {<<>>}
    ELSE LET shorter == StringsUpTo(n - 1)
         IN  shorter \cup {Append(t, c) : t \in shorter, c \in {"0", "9", "-"}}

\* the ZIP codes of the tests and of the documentation, and malformed ones
ZipSamples ==
    { JSChars(<<"1", "0", "0", "0", "1">>),
      JSChars(<<"3", "0", "3", "0", "1">>),
      JSChars(<<"5", "0", "0", "0", "0">>),
      JSChars(<<"6", "0", "6", "0", "1">>),
      JSChars(<<"9", "0", "2", "1", "0">>),
      JSChars(<<"1", "2", "3", "4", "5">>),
      JSChars(<<"1", "9", "9", "9", "9">>),
      JSChars(<<"2", "0", "0", "0", "0">>),
      JSChars(<<"3", "9", "9", "9", "9">>),
      JSChars(<<"4", "0", "0", "0", "0">>),
      JSChars(<<"5", "9", "9", "9", "9">>),
      JSChars(<<"6", "0", "0", "0", "0">>),
      JSChars(<<"7", "9", "9", "9", "9">>),
      JSChars(<<"8", "0", "0", "0", "0">>),
      JSChars(<<"i", "n", "v", "a", "l", "i", "d">>),
      JSChars(<<"n", "o", "t", "-", "a", "-", "z", "i", "p">>),
      JSChars(<<"1", "2", "3", "4">>),
      JSChars(<<"1", "2", "3", "4", "5", "6">>),
      JSChars(<<"a", "b", "c", "d", "e">>),
      JSChars(<<"1", "2", "3", "-", "4", "5">>),
      JSChars(<<"1", "2", " ", "3", "4", "5">>),
      JSChars(<<"9", "-", "0", "2", "1", "0">>),
      JSChars(<<"x", "1", "0", "0", "0", "1">>),
      JSChars(<<" ", "9", "0", "2", "1", "0">>),
      JSChars(<<"-", "5">>),
      JSChars(<<"+", "2", "0", "0", "0", "0">>),
      JSNull, JSUndefined, JSNumber(12345), JSNumber(0) }

ZipInputs == ZipSamples \cup {JSChars(t) : t \in StringsUpTo(MaxZipLen)}

MethodInputs ==
    { JSText("standard"), JSText("express"), JSText("2-day"),
      JSText("overnight"), JSText("express-overnight"), JSText("unknown"),
      JSText("Express"), JSText(""), JSNull, JSUndefined }

Helper_CallGetTransitDays ==
    /\ ret' = [op |-> "getTransitDays", module |-> "helper",
               zip |-> callerZip, value |-> Helper_getTransitDays(callerZip)]
    /\ UNCHANGED <<clock, env, holidayCache, callerDate, callerZip>>

Helper_CallGetTransitDaysForShippingMethod(shippingMethodId) ==
    /\ ret' = [op |-> "getTransitDaysForShippingMethod", module |-> "helper",
               zip |-> callerZip, method |-> shippingMethodId,
               value |-> Helper_getTransitDaysForShippingMethod(
                            shippingMethodId, callerZip)]
    /\ UNCHANGED <<clock, env, holidayCache, callerDate, callerZip>>

Helper_CallIsValidZipCode ==
    /\ ret' = [op |-> "isValidZipCode", module |-> "helper",
               zip |-> callerZip, value |-> Helper_isValidZipCode(callerZip)]
    /\ UNCHANGED <<clock, env, holidayCache, callerDate, callerZip>>

CallGetTransitDays ==
    /\ ret' = [op |-> "getTransitDays", module |-> "client",
               zip |-> callerZip, value |-> getTransitDays(callerZip)]
    /\ UNCHANGED <<clock, env, holidayCache, callerDate, callerZip>>

CallGetTransitDaysForShippingMethod(shippingMethodId) ==
    /\ ret' = [op |-> "getTransitDaysForShippingMethod", module |-> "client",
               zip |-> callerZip, method |-> shippingMethodId,
               value |-> getTransitDaysForShippingMethod(
                            shippingMethodId, callerZip)]
    /\ UNCHANGED <<clock, env, holidayCache, callerDate, callerZip>>

CallIsValidZipCode ==
    /\ ret' = [op |-> "isValidZipCode", module |-> "client",
               zip |-> callerZip, value |-> isValidZipCode(callerZip)]
    /\ UNCHANGED <<clock, env, holidayCache, callerDate, callerZip>>

\* getShipDate() of the client utility: one reading of the clock
CallGetShipDate ==
    \E r \in {getShipDate(holidayCache, env, clock)} :
        /\ holidayCache' = r.cache
        /\ ret' = [op |-> "getShipDate", module |-> "client",
                   hourAt |-> clock, todayAt |-> clock,
                   estHour |-> r.estHour, today |-> r.today,
                   value |-> r.value]
        /\ UNCHANGED <<clock, env, callerDate, callerZip>>

\* getShipDate() of the static-holiday client utility
Static_CallGetShipDate ==
    \E r \in {Static_getShipDate(env, clock)} :
        /\ ret' = [op |-> "getShipDate", module |-> "static",
                   hourAt |-> clock, todayAt |-> clock,
                   estHour |-> r.estHour, today |-> r.today,
                   value |-> r.value]
        /\ UNCHANGED <<clock, env, holidayCache, callerDate, callerZip>>

\* getShipDate() of the server helper: the clock may pass up to
\* MaxCallSkew hour boundaries between its two readings
Helper_CallGetShipDate(skew) ==
    \E r \in {Helper_getShipDate(env, clock, clock + skew)} :
        /\ clock + skew <= ClockEnd(clock)
        /\ clock' = clock + skew
        /\ ret' = [op |-> "getShipDate", module |-> "helper",
                   hourAt |-> clock, todayAt |-> clock + skew,
                   estHour |-> r.estHour, today |-> r.today,
                   value |-> r.value]
        /\ UNCHANGED <<env, holidayCache, callerDate, callerZip>>

\* an hour passes; the caller drops the last result
Tick ==
    /\ clock < ClockEnd(clock)
    /\ clock' = clock + 1
    /\ ret' = NoCall
    /\ UNCHANGED <<env, holidayCache, callerDate, callerZip>>

\* the caller drops the last result
Drop ==
    /\ ret # NoCall
    /\ ret' = NoCall
    /\ UNCHANGED <<clock, env, holidayCache, callerDate, callerZip>>

\* the offsets from the first reading of the clock of n successive
\* readings during one call: at most MaxCallSkew hour boundaries pass
Readings(n) ==
    { at \in [1 .. n -> 0 .. MaxCallSkew] :
        /\ at[1] = 0
        /\ \A i \in 1 .. (n - 1) : at[i] <= at[i + 1] }

\* the clock of the estimator specifications starts at 12:00 UTC on
\* Tuesday 2024-12-24 (07:00 in New York, Christmas ahead)
EstimateClockStart == DaysFromCivil(2024, 12, 24) * 24 + 12

EstimateEnvs ==
    { e \in Envs : /\ e.timeZoneApi
                   /\ e.hourCycle = "h23"
                   /\ e.zone \in {"America/New_York", "Asia/Tokyo"} }

\* one ZIP code of each transit zone, one that does not parse, and one
\* with a separator
EstimateZips ==
    { JSChars(<<"1", "0", "0", "0", "1">>),
      JSChars(<<"3", "0", "3", "0", "1">>),
      JSChars(<<"5", "0", "0", "0", "0">>),
      JSChars(<<"6", "0", "6", "0", "1">>),
      JSChars(<<"9", "0", "2", "1", "0">>),
      JSChars(<<"a", "b", "c", "d", "e">>),
      JSChars(<<"1", "2", "3", "-", "4", "5">>) }

\* calculateDeliveryDate(destinationZip, shippingMethodId), client utility
CallCalculateDeliveryDate(shippingMethodId) ==
    \E r \in {calculateDeliveryDate(holidayCache, env, clock, callerZip,
                                     shippingMethodId)} :
        /\ holidayCache' = r.cache
        /\ ret' = [op |-> "calculateDeliveryDate", module |-> "client",
                   zip |-> callerZip, method |-> shippingMethodId,
                   hourAt |-> clock, todayAt |-> clock, value |-> r.value]
        /\ UNCHANGED <<clock, env, callerDate, callerZip>>

\* calculateDeliveryDate(destinationZip, shippingMethodId), helper
Helper_CallCalculateDeliveryDate(shippingMethodId, at) ==
    /\ clock + at[2] <= EstimateClockStart + EstimateSpan
    /\ clock' = clock + at[2]
    /\ ret' = [op |-> "calculateDeliveryDate", module |-> "helper",
               zip |-> callerZip, method |-> shippingMethodId,
               hourAt |-> clock, todayAt |-> clock + at[2],
               value |-> Helper_calculateDeliveryDate(
                            env, clock, clock + at[2], callerZip,
                            shippingMethodId)]
    /\ UNCHANGED <<env, holidayCache, callerDate, callerZip>>

\* getDeliveryEstimatesForAllMethods(destinationZip), client utility
CallGetDeliveryEstimatesForAllMethods(at) ==
    \E r \in {getDeliveryEstimatesForAllMethods(
                  holidayCache, env, [k \in 1 .. 3 |-> clock + at[k]],
                  callerZip)} :
        /\ clock + at[3] <= EstimateClockStart + EstimateSpan
        /\ clock' = clock + at[3]
        /\ holidayCache' = r.cache
        /\ ret' = [op |-> "getDeliveryEstimatesForAllMethods",
                   module |-> "client", zip |-> callerZip,
                   at |-> [k \in 1 .. 3 |-> clock + at[k]],
                   value |-> r.value]
        /\ UNCHANGED <<env, callerDate, callerZip>>

\* getDeliveryEstimatesForAllMethods(destinationZip), helper
Helper_CallGetDeliveryEstimatesForAllMethods(at) ==
    /\ clock + at[6] <= EstimateClockStart + EstimateSpan
    /\ clock' = clock + at[6]
    /\ ret' = [op |-> "getDeliveryEstimatesForAllMethods",
               module |-> "helper", zip |-> callerZip,
               at |-> [k \in 1 .. 6 |-> clock + at[k]],
               value |-> Helper_getDeliveryEstimatesForAllMethods(
                            env, [k \in 1 .. 6 |-> clock + at[k]], callerZip)]
    /\ UNCHANGED <<env, holidayCache, callerDate, callerZip>>

----------------------------------------------------------------------------
(* Specification of the delivery estimator: calls on a running clock *)

InitEstimate ==
    /\ clock = EstimateClockStart
    /\ env \in EstimateEnvs
    /\ holidayCache = EmptyCache
    /\ callerDate = FirstCalendarDay
    /\ callerZip \in EstimateZips
    /\ ret = NoCall

\* a call is made by a caller that holds no result
NextEstimate ==
    \/ clock < EstimateClockStart + EstimateSpan /\ Tick
    \/ Drop
    \/ ret = NoCall /\ \E m \in MethodInputs : CallCalculateDeliveryDate(m)
    \/ ret = NoCall /\ \E m \in MethodInputs, at \in Readings(2) :
            Helper_CallCalculateDeliveryDate(m, at)
    \/ ret = NoCall /\ \E at \in Readings(3) :
            CallGetDeliveryEstimatesForAllMethods(at)
    \/ ret = NoCall /\ \E at \in Readings(6) :
            Helper_CallGetDeliveryEstimatesForAllMethods(at)

SpecEstimate == InitEstimate /\ [][NextEstimate]_vars

----------------------------------------------------------------------------
(* Specification of the controller: requests on a running clock *)

\* the zipCode of a request: absent, empty, too short, not numeric, with
\* a separator or a letter among five digits, and two ZIP codes of
\* different zones
RequestZips ==
    { JSUndefined,
      JSChars(<<>>),
      JSChars(<<"1", "2", "3", "4">>),
      JSChars(<<"a", "b", "c", "d", "e">>),
      JSChars(<<"1", "2", "3", "-", "4", "5">>),
      JSChars(<<"9", "-", "0", "2", "1", "0">>),
      JSChars(<<"x", "1", "0", "0", "0", "1">>),
      JSChars(<<"1", "0", "0", "0", "1">>),
      JSChars(<<"9", "0", "2", "1", "0">>) }

\* the shippingMethodId of a request: absent, empty or a string
RequestMethods ==
    { JSUndefined, JSText(""), JSText("standard"), JSText("express"),
      JSText("overnight"), JSText("unknown") }

\* a request to PromiseDelivery-GetEstimate
HandleGetEstimate(shippingMethodId, at, throws) ==
    \E querystring \in {[zipCode |-> callerZip,
                         shippingMethodId |-> shippingMethodId]} :
    \E calls \in {GetEstimate(env, clock, clock + at[2], querystring,
                              throws)} :
    \E ran \in {Helper_isValidZipCode(callerZip) /\ ~throws} :
        /\ at[2] = 0 \/ ran
        /\ clock + at[2] <= EstimateClockStart + EstimateSpan
        /\ clock' = clock + at[2]
        /\ ret' = [op |-> "GetEstimate", module |-> "controller",
                   querystring |-> querystring, throws |-> throws,
                   hourAt |-> clock, todayAt |-> clock + at[2],
                   calls |-> calls]
        /\ UNCHANGED <<env, holidayCache, callerDate, callerZip>>

\* a request to PromiseDelivery-GetAllEstimates
HandleGetAllEstimates(at, throws) ==
    \E querystring \in {[zipCode |-> callerZip]} :
    \E calls \in {GetAllEstimates(env, [k \in 1 .. 6 |-> clock + at[k]],
                                  querystring, throws)} :
    \E ran \in {Helper_isValidZipCode(callerZip) /\ ~throws} :
        /\ at[6] = 0 \/ ran
        /\ clock + at[6] <= EstimateClockStart + EstimateSpan
        /\ clock' = clock + at[6]
        /\ ret' = [op |-> "GetAllEstimates", module |-> "controller",
                   querystring |-> querystring, throws |-> throws,
                   at |-> [k \in 1 .. 6 |-> clock + at[k]],
                   calls |-> calls]
        /\ UNCHANGED <<env, holidayCache, callerDate, callerZip>>

InitController ==
    /\ clock = EstimateClockStart
    /\ env \in EstimateEnvs
    /\ holidayCache = EmptyCache
    /\ callerDate = FirstCalendarDay
    /\ callerZip \in RequestZips
    /\ ret = NoCall

\* a request is handled once the response to the last one is gone
NextController ==
    \/ clock < EstimateClockStart + EstimateSpan /\ Tick
    \/ Drop
    \/ ret = NoCall /\ \E m \in RequestMethods, at \in Readings(2),
                          throws \in BOOLEAN :
            HandleGetEstimate(m, at, throws)
    \/ ret = NoCall /\ \E at \in Readings(6), throws \in BOOLEAN :
            HandleGetAllEstimates(at, throws)

SpecController == InitController /\ [][NextController]_vars

----------------------------------------------------------------------------
(* Specification of the checkout page: the list of shipping methods is
   rendered, the form is submitted, the summary is rendered; an hour that
   passes takes the page away *)

\* the applicable shipping methods of the storefront
applicableShippingMethods ==
    << [id |-> JSChars(<<"0", "0", "1">>),
        name |-> JSChars(<<"G", "r", "o", "u", "n", "d">>)],
       [id |-> JSChars(<<"0", "0", "2">>),
        name |-> JSChars(<<"2", "-", "D", "a", "y", " ", "E", "x", "p", "r", "e", "s", "s">>)],
       [id |-> JSChars(<<"0", "0", "3">>),
        name |-> JSChars(<<"O", "v", "e", "r", "n", "i", "g", "h", "t">>)],
       [id |-> JSChars(<<"e", "x", "p", "r", "e", "s", "s">>),
        name |-> JSChars(<<"E", "x", "p", "r", "e", "s", "s", " ", "S", "h", "i", "p", "p", "i", "n", "g">>)],
       [id |-> JSChars(<<"N", "E", "X", "T", "-", "D", "A", "Y">>),
        name |-> JSChars(<<"N", "e", "x", "t", " ", "D", "a", "y", " ", "A", "i", "r">>)] >>

\* ShippingMethodOptions renders: deliveryDates holds the date of each
\* promise method, and each option shows the date of its promise method
RenderShippingMethodOptions ==
    \E standard \in {calculateDeliveryDate(holidayCache, env, clock,
                                           callerZip, JSText("standard"))} :
    \E express \in {calculateDeliveryDate(standard.cache, env, clock,
                                          callerZip, JSText("express"))} :
    \E overnight \in {calculateDeliveryDate(express.cache, env, clock,
                                            callerZip, JSText("overnight"))} :
    \E deliveryDates \in {[standard  |-> standard.value.formattedDate,
                           express   |-> express.value.formattedDate,
                           overnight |-> overnight.value.formattedDate]} :
    \E promiseMethodId \in
            {[k \in DOMAIN applicableShippingMethods |->
                getPromiseMethodId(applicableShippingMethods[k].id,
                                   applicableShippingMethods[k].name)]} :
        /\ ret = NoCall
        /\ holidayCache' = overnight.cache
        /\ ret' = [op |-> "checkout", step |-> "options",
                   destinationZip |-> callerZip,
                   optionMethodId |-> promiseMethodId,
                   optionDate |-> [k \in DOMAIN applicableShippingMethods |->
                                      deliveryDates[promiseMethodId[k]]],
                   selected |-> 0,
                   storedMethodId |-> "", localStorage |-> <<>>,
                   summaryMethodId |-> "", summaryDate |-> ""]
        /\ UNCHANGED <<clock, env, callerDate, callerZip>>

\* submitForm with the k-th method selected
SubmitForm(k) ==
    /\ ret.op = "checkout"
    /\ ret.step = "options"
    /\ \E promiseMethodId \in
            {getPromiseMethodId(applicableShippingMethods[k].id,
                                JSUndefined)} :
       \E deliveryResult \in
            {calculateDeliveryDate(holidayCache, env, clock,
                                   ret.destinationZip,
                                   JSText(promiseMethodId))} :
            /\ holidayCache' = deliveryResult.cache
            /\ ret' = [ret EXCEPT
                         !.step = "submitted",
                         !.selected = k,
                         !.storedMethodId = promiseMethodId,
                         !.localStorage =
                            [customerSelectedDeliveryDate |->
                                deliveryResult.value.formattedDateFull,
                             customerSelectedDeliveryDateISO |->
                                deliveryResult.value.deliveryDate]]
    /\ UNCHANGED <<clock, env, callerDate, callerZip>>

\* the summary of the step renders with the method that was submitted
RenderShippingMethodSummary ==
    /\ ret.op = "checkout"
    /\ ret.step = "submitted"
    /\ \E promiseMethodId \in
            {getPromiseMethodId(applicableShippingMethods[ret.selected].id,
                                JSUndefined)} :
       \E summary \in
            {calculateDeliveryDate(holidayCache, env, clock,
                                   ret.destinationZip,
                                   JSText(promiseMethodId))} :
            /\ holidayCache' = summary.cache
            /\ ret' = [ret EXCEPT
                         !.step = "summary",
                         !.summaryMethodId = promiseMethodId,
                         !.summaryDate = summary.value.formattedDate]
    /\ UNCHANGED <<clock, env, callerDate, callerZip>>

NextCheckout ==
    \/ clock < EstimateClockStart + EstimateSpan /\ Tick
    \/ Drop
    \/ RenderShippingMethodOptions
    \/ \E k \in DOMAIN applicableShippingMethods : SubmitForm(k)
    \/ RenderShippingMethodSummary

SpecCheckout == InitEstimate /\ [][NextCheckout]_vars

----------------------------------------------------------------------------
(* Specification of the Holiday Calculator: calls for any year *)

InitHolidays ==
    /\ clock = 0
    /\ env = DefaultEnv
    /\ holidayCache = EmptyCache
    /\ callerDate = FirstCalendarDay
    /\ callerZip = <<>>
    /\ ret = NoCall

NextHolidays ==
    \E year \in Years :
        /\ \/ year \in DOMAIN holidayCache
           \/ Cardinality(DOMAIN holidayCache) < MaxCachedYears
        /\ CallGetHolidaysForYear(year)

SpecHolidays == InitHolidays /\ [][NextHolidays]_vars

----------------------------------------------------------------------------
(* Specification of the Business-Day Calendar: calls for any date *)

InitCalendar ==
    /\ clock = 0
    /\ env = DefaultEnv
    /\ holidayCache = EmptyCache
    /\ callerDate = FirstCalendarDay
    /\ callerZip = <<>>
    /\ ret = NoCall

NextCalendar ==
    \/ AdvanceDate
    \/ CallIsBusinessDay
    \/ CallGetNextBusinessDay
    \/ \E n \in 0 .. MaxBusinessDays : CallAddBusinessDays(n)
    \/ Helper_CallIsBusinessDay
    \/ Helper_CallGetNextBusinessDay
    \/ \E n \in 0 .. MaxBusinessDays : Helper_CallAddBusinessDays(n)

SpecCalendar == InitCalendar /\ [][NextCalendar]_vars

----------------------------------------------------------------------------
(* Specification of the display strings: the formatting steps of
   calculateDeliveryDate applied to any delivery date *)

\* the formatting steps of the client utility's calculateDeliveryDate
FormatDeliveryDate ==
    \E fields \in {CivilFromDays(callerDate)} :
    \E est \in {estimateObject(callerDate, 0, callerDate,
                               days[getDay(callerDate) + 1],
                               months[fields.month + 1], fields.date)} :
        /\ ret' = [op |-> "formatDeliveryDate", module |-> "client",
                   date |-> callerDate,
                   formattedDate |-> est.formattedDate,
                   formattedDateFull |-> est.formattedDateFull,
                   displayMessage |-> est.displayMessage]
        /\ UNCHANGED <<clock, env, holidayCache, callerDate, callerZip>>

\* the formatting steps of the helper's calculateDeliveryDate
Helper_FormatDeliveryDate ==
    \E fields \in {CivilFromDays(callerDate)} :
    \E est \in {estimateObject(callerDate, 0, callerDate,
                               days[(Calendar_DAY_OF_WEEK(callerDate) - 1) + 1],
                               months[fields.month + 1], fields.date)} :
        /\ ret' = [op |-> "formatDeliveryDate", module |-> "helper",
                   date |-> callerDate,
                   formattedDate |-> est.formattedDate,
                   formattedDateFull |-> est.formattedDateFull,
                   displayMessage |-> est.displayMessage]
        /\ UNCHANGED <<clock, env, holidayCache, callerDate, callerZip>>

NextFormat ==
    \/ AdvanceDate
    \/ FormatDeliveryDate
    \/ Helper_FormatDeliveryDate

SpecFormat == InitCalendar /\ [][NextFormat]_vars

----------------------------------------------------------------------------
(* Specification of the holiday cache: getHolidaysForYear and isBusinessDay
   of the client utility, for the years of the calendar *)

NextCache ==
    \/ AdvanceDate
    \/ CallIsBusinessDay
    \/ \E year \in getFullYear(FirstCalendarDay)
                     .. getFullYear(FirstCalendarDay + CalendarSpan) :
            CallGetHolidaysForYear(year)

SpecCache == InitCalendar /\ [][NextCache]_vars

----------------------------------------------------------------------------
(* Specification of the transit resolver: calls on any ZIP code *)

InitTransit ==
    /\ clock = 0
    /\ env = DefaultEnv
    /\ holidayCache = EmptyCache
    /\ callerDate = FirstCalendarDay
    /\ callerZip \in ZipInputs
    /\ ret = NoCall

NextTransit ==
    \/ Helper_CallGetTransitDays
    \/ \E m \in MethodInputs : Helper_CallGetTransitDaysForShippingMethod(m)
    \/ Helper_CallIsValidZipCode
    \/ CallGetTransitDays
    \/ \E m \in MethodInputs : CallGetTransitDaysForShippingMethod(m)
    \/ CallIsValidZipCode

SpecTransit == InitTransit /\ [][NextTransit]_vars

----------------------------------------------------------------------------
(* Specification of the delivery estimator on a running clock *)

Init ==
    /\ clock \in ClockStarts
    /\ env \in Envs
    /\ holidayCache = EmptyCache
    /\ callerDate = FirstCalendarDay
    /\ callerZip = JSChars(<<"9", "0", "2", "1", "0">>)
    /\ ret = NoCall

Next ==
    \/ Tick
    \/ CallGetShipDate
    \/ Static_CallGetShipDate
    \/ \E skew \in 0 .. MaxCallSkew : Helper_CallGetShipDate(skew)

Spec == Init /\ [][Next]_vars

----------------------------------------------------------------------------
(* Properties of the Business-Day Calendar, under SpecCalendar *)

\* the number of dates x, after < x <= upto, that the calendar takes for
\* business days
BusinessDaysWithin(after, upto) ==
    Cardinality({x \in (after + 1) .. upto :
                    isBusinessDay(holidayCache, x).value})

\* C2: addBusinessDays(d, n) returns the earliest date r >= d with exactly
\* n business days in (d, r]: weekends and holidays in between are not
\* counted, n = 0 gives d itself on any d, and Fri 2024-12-27 + 1 is
\* Mon 2024-12-30, 2024-12-24 + 1 is 2024-12-26, Mon 2024-12-02 + 5 is
\* Mon 2024-12-09.
C2_AddBusinessDaysEarliest ==
    (ret.op = "addBusinessDays" /\ ret.module = "client") =>
        LET d == ret.date
            n == ret.businessDays
            r == ret.value
        IN  /\ r >= d
            /\ BusinessDaysWithin(d, r) = n
            /\ \A q \in d .. (r - 1) : BusinessDaysWithin(d, q) # n
            /\ (n = 0) => (r = d)
            /\ (d = DaysFromCivil(2024, 12, 27) /\ n = 1)
                    => r = DaysFromCivil(2024, 12, 30)
            /\ (d = DaysFromCivil(2024, 12, 24) /\ n = 1)
                    => r = DaysFromCivil(2024, 12, 26)
            /\ (d = DaysFromCivil(2024, 12, 2) /\ n = 5)
                    => r = DaysFromCivil(2024, 12, 9)

\* C2 witness: one business day added to 2024-12-24 skipped Christmas
C2_Witness ==
    /\ ret.op = "addBusinessDays"
    /\ ret.module = "client"
    /\ ret.date = DaysFromCivil(2024, 12, 24)
    /\ ret.businessDays = 1
    /\ ret.value = DaysFromCivil(2024, 12, 26)

\* C3: isBusinessDay(D) is false on a Saturday or Sunday, false when the
\* YYYY-MM-DD form of D is in getHolidaysForYear(year of D), true otherwise;
\* false for 2024-12-25, 2025-12-25, 2025-01-01, 2025-07-04 and true for
\* Monday 2024-12-30.
C3_IsBusinessDayRule ==
    (ret.op = "isBusinessDay" /\ ret.module = "client") =>
        LET D        == ret.date
            weekend  == getDay(D) \in {0, 6}
            holidays == getHolidaysForYear(holidayCache, getFullYear(D)).value
            listed   == includes(holidays, formatDateStringInternal(D))
        IN  /\ ret.value = (~weekend /\ ~listed)
            /\ D \in { DaysFromCivil(2024, 12, 25), DaysFromCivil(2025, 12, 25),
                        DaysFromCivil(2025, 1, 1), DaysFromCivil(2025, 7, 4) }
                    => ret.value = FALSE
            /\ D = DaysFromCivil(2024, 12, 30) => ret.value = TRUE

\* C3 witness: isBusinessDay was asked about Friday 2025-07-04 and said no
C3_Witness ==
    /\ ret.op = "isBusinessDay"
    /\ ret.module = "client"
    /\ ret.date = DaysFromCivil(2025, 7, 4)
    /\ getDay(ret.date) = 5
    /\ ret.value = FALSE

----------------------------------------------------------------------------
(* Properties of the Holiday Calculator, under SpecHolidays *)

Range(arr) == {arr[i] : i \in DOMAIN arr}

\* C9: getHolidaysForYear(Y) returns exactly 10 pairwise distinct
\* YYYY-MM-DD dates, and every later call for the same Y returns the same
\* 10 dates: what a call returns is what the cache then holds for Y, and
\* an entry of the cache never changes.
C9_TenDistinctAndStable ==
    /\ [](ret.op = "getHolidaysForYear" =>
            /\ Len(ret.value) = 10
            /\ Cardinality(Range(ret.value)) = 10
            /\ \A i \in DOMAIN ret.value : Len(ret.value[i]) = 10
            /\ ret.year \in DOMAIN holidayCache
            /\ Range(holidayCache[ret.year]) = Range(ret.value))
    /\ [][\A y \in DOMAIN holidayCache :
              /\ y \in DOMAIN holidayCache'
              /\ holidayCache'[y] = holidayCache[y]]_vars

\* C9 witness: a second call for a year already cached has returned
C9_Witness ==
    /\ ret.op = "getHolidaysForYear"
    /\ ret.cached
    /\ Cardinality(Range(ret.value)) = 10

\* the date on which a holiday of literal date y-m-d is observed
ObservedOn(y, m, d) ==
    LET literal == DaysFromCivil(y, m, d)
    IN  CASE getDay(literal) = 6 -> literal - 1
          [] getDay(literal) = 0 -> literal + 1
          [] OTHER -> literal

\* C10: each fixed-date holiday (Jan 1, Jul 4, Nov 11, Dec 25) enters the
\* set on its literal date when that is Monday to Friday, on the Friday
\* before when it is a Saturday, on the Monday after when it is a Sunday;
\* the observed date is always a weekday.
C10_FixedDateObservance ==
    ret.op = "getHolidaysForYear" =>
        \A h \in { <<1, 1, 1>>, <<5, 7, 4>>, <<8, 11, 11>>, <<10, 12, 25>> } :
            LET observed == ObservedOn(ret.year, h[2], h[3])
            IN  /\ ret.value[h[1]] = formatDateStringInternal(observed)
                /\ getDay(observed) \in 1 .. 5

\* C10 witness: a year whose 4th of July is a Saturday (observed on the
\* 3rd) and a year whose Christmas is a Sunday (observed on the 26th)
C10_Witness ==
    /\ ret.op = "getHolidaysForYear"
    /\ \/ /\ getDay(DaysFromCivil(ret.year, 7, 4)) = 6
          /\ ret.value[5] = ToString(ret.year) \o "-07-03"
       \/ /\ getDay(DaysFromCivil(ret.year, 12, 25)) = 0
          /\ ret.value[10] = ToString(ret.year) \o "-12-26"

\* the day of month lo .. hi of month m (1..12) of year y that falls on
\* weekday dow (0 = Sunday), as a YYYY-MM-DD string
WeekdayWithin(y, m, dow, lo, hi) ==
    LET d == CHOOSE x \in lo .. hi : getDay(DaysFromCivil(y, m, x)) = dow
    IN  ToString(y) \o "-" \o padStart2(m) \o "-" \o padStart2(d)

\* C11: each floating holiday is the stated occurrence of its weekday in
\* its month: MLK Day the Monday of January 15-21, Presidents Day the
\* Monday of February 15-21, Memorial Day the Monday of May 25-31, Labor
\* Day the Monday of September 1-7, Columbus Day the Monday of October
\* 8-14, Thanksgiving the Thursday of November 22-28; for 2025 these are
\* 01-20, 02-17, 05-26, 09-01, 10-13 and 11-27.
C11_FloatingHolidays ==
    ret.op = "getHolidaysForYear" =>
        /\ ret.value[2] = WeekdayWithin(ret.year, 1, 1, 15, 21)
        /\ ret.value[3] = WeekdayWithin(ret.year, 2, 1, 15, 21)
        /\ ret.value[4] = WeekdayWithin(ret.year, 5, 1, 25, 31)
        /\ ret.value[6] = WeekdayWithin(ret.year, 9, 1, 1, 7)
        /\ ret.value[7] = WeekdayWithin(ret.year, 10, 1, 8, 14)
        /\ ret.value[9] = WeekdayWithin(ret.year, 11, 4, 22, 28)
        /\ ret.year = 2025 =>
                /\ ret.value[2] = "2025-01-20"
                /\ ret.value[3] = "2025-02-17"
                /\ ret.value[4] = "2025-05-26"
                /\ ret.value[6] = "2025-09-01"
                /\ ret.value[7] = "2025-10-13"
                /\ ret.value[9] = "2025-11-27"

\* C11 witness: the holidays of 2025 were computed; September 2025 starts
\* on a Monday, November 2025 on a Saturday
C11_Witness ==
    /\ ret.op = "getHolidaysForYear"
    /\ ret.year = 2025
    /\ ret.value[6] = "2025-09-01"
    /\ ret.value[9] = "2025-11-27"

----------------------------------------------------------------------------
(* Properties of the transit resolver and of validation, under SpecTransit *)

C5_ShippingMethodModifier ==
    ret.op = "getTransitDaysForShippingMethod" =>
        LET base == IF ret.module = "helper"
                    THEN Helper_getTransitDays(ret.zip)
                    ELSE getTransitDays(ret.zip)
        IN  /\ base \in 1 .. 5
            /\ ret.method \in {JSText("overnight"), JSText("express-overnight")}
                    => ret.value = 1
            /\ ret.method \in {JSText("express"), JSText("2-day")}
                    => /\ ret.value <= 2
                       /\ ret.value <= base
                       /\ ret.value \in {2, base}
            /\ ret.method \notin {JSText("overnight"), JSText("express-overnight"),
                                   JSText("express"), JSText("2-day")}
                    => ret.value = base

\* C5 witness: express to a ZIP one day away took 1 day, not 2
C5_Witness ==
    /\ ret.op = "getTransitDaysForShippingMethod"
    /\ ret.module = "helper"
    /\ ret.method = JSText("express")
    /\ ret.zip = JSChars(<<"1", "0", "0", "0", "1">>)
    /\ ret.value = 1

\* the number of digit characters of a string
DigitCount(chars) == Cardinality({i \in DOMAIN chars : chars[i] \in Digits})

----------------------------------------------------------------------------
(* Properties of the ship-date resolver, under Spec *)

Origin == "America/New_York"

\* the business-day judgement and the next business day of the utility
\* that answered the last call
JudgedBusinessDay(module, day) ==
    CASE module = "client" -> isBusinessDay(holidayCache, day).value
      [] module = "static" -> Static_isBusinessDay(day)
      [] module = "helper" -> Helper_isBusinessDay(day)

JudgedNextBusinessDay(module, day) ==
    CASE module = "client" -> getNextBusinessDay(holidayCache, day).value
      [] module = "static" -> Static_getNextBusinessDay(day)
      [] module = "helper" -> Helper_getNextBusinessDay(day)

\* C1: getShipDate applies the cutoff rule exactly: when the hour of day in
\* the origin zone is strictly less than 14 and today (now normalised to
\* midnight) is a business day, the ship date is today; in every other case
\* (hour >= 14, or today not a business day) it is getNextBusinessDay(today).
\* Stated for the helper and for the client utility with dynamic holidays.
C1_CutoffRuleExact ==
    (ret.op = "getShipDate" /\ ret.module \in {"client", "helper"}) =>
        LET hour  == LocalHour(Origin, ret.hourAt)
            today == ret.today
        IN  /\ today = LocalDay(env.zone, ret.todayAt)
            /\ ret.value =
                  IF hour < 14 /\ JudgedBusinessDay(ret.module, today)
                  THEN today
                  ELSE JudgedNextBusinessDay(ret.module, today)

\* C1 failing state: a process whose Intl knows no time zone, west of New
\* York, asked at 14:00 New York time on a business day, ships today
C1_Witness ==
    /\ ret.op = "getShipDate"
    /\ ret.module = "client"
    /\ ~env.timeZoneApi
    /\ LocalHour(Origin, ret.hourAt) = 14
    /\ ret.estHour < 14
    /\ JudgedBusinessDay("client", ret.today)
    /\ ret.value = ret.today

\* C7: judged in New York civil time, an order placed before 2 PM on a
\* business day gets that same New York day as its ship date, and an order
\* placed at or after 2 PM, or on a weekend or holiday, gets the next
\* business day after that New York day, whatever the zone of the process.
\* Stated for the client utility in a process whose Intl gives the New York
\* hour as 00..23, where the hour compared is the New York hour.
C7_JudgedInOriginCivilTime ==
    ( /\ ret.op = "getShipDate"
      /\ ret.module = "client"
      /\ env.timeZoneApi
      /\ env.hourCycle = "h23" ) =>
        LET originDay  == LocalDay(Origin, ret.hourAt)
            originHour == LocalHour(Origin, ret.hourAt)
        IN  ret.value =
              IF originHour < 14 /\ JudgedBusinessDay("client", originDay)
              THEN originDay
              ELSE JudgedNextBusinessDay("client", originDay)

\* C7 failing state: a process in Tokyo asked before 2 PM of a New York
\* business day, when it is already the next day in Tokyo, returns the
\* Tokyo day
C7_Witness ==
    /\ ret.op = "getShipDate"
    /\ ret.module = "client"
    /\ env = [zone |-> "Asia/Tokyo", timeZoneApi |-> TRUE, hourCycle |-> "h23"]
    /\ ret.estHour = LocalHour(Origin, ret.hourAt)
    /\ ret.estHour < 14
    /\ JudgedBusinessDay("client", LocalDay(Origin, ret.hourAt))
    /\ ret.value = LocalDay(Origin, ret.hourAt) + 1

\* C8: on every path of getShipDate (client with dynamic holidays, client
\* with static holidays, helper) the hour compared with the cutoff is the
\* wall-clock hour of day in America/New_York at the instant the clock was
\* read; the hour of the caller's zone is never used.
C8_HourIsOriginWallClock ==
    ret.op = "getShipDate" => ret.estHour = LocalHour(Origin, ret.hourAt)

\* C8 failing state: the fallback path compared the hour of the caller's
\* zone, which is not the New York hour
C8_Witness ==
    /\ ret.op = "getShipDate"
    /\ ret.module = "client"
    /\ ~env.timeZoneApi
    /\ env.zone # Origin
    /\ ret.estHour = LocalHour(env.zone, ret.hourAt)
    /\ ret.estHour # LocalHour(Origin, ret.hourAt)

----------------------------------------------------------------------------
(* Properties of getNextBusinessDay, under SpecCalendar *)

\* C12: getNextBusinessDay(d), of the helper and of the client utility,
\* returns the earliest business day strictly after d: never d itself,
\* also when d is a business day, and no business day lies strictly
\* between d and the result.
C12_NextBusinessDayStrictlyAfter ==
    ret.op = "getNextBusinessDay" =>
        LET d == ret.date
            r == ret.value
        IN  /\ r > d
            /\ JudgedBusinessDay(ret.module, r)
            /\ \A x \in (d + 1) .. (r - 1) : ~JudgedBusinessDay(ret.module, x)

\* C12 witness: asked on Friday 2024-12-27, a business day, the helper
\* answered Monday 2024-12-30
C12_Witness ==
    /\ ret.op = "getNextBusinessDay"
    /\ ret.module = "helper"
    /\ ret.date = DaysFromCivil(2024, 12, 27)
    /\ JudgedBusinessDay("helper", ret.date)
    /\ ret.value = DaysFromCivil(2024, 12, 30)

----------------------------------------------------------------------------
(* Further properties of the ship-date resolver, under Spec *)

\* C13: at every clock instant at which it is called, the date returned by
\* getShipDate satisfies isBusinessDay (of the utility that was called).
C13_ShipDateIsBusinessDay ==
    ret.op = "getShipDate" => JudgedBusinessDay(ret.module, ret.value)

\* C13 witness: called before the cutoff on Christmas Day 2024, the client
\* utility returned the 26th
C13_Witness ==
    /\ ret.op = "getShipDate"
    /\ ret.module = "client"
    /\ ret.estHour < 14
    /\ ret.today = DaysFromCivil(2024, 12, 25)
    /\ ret.value = DaysFromCivil(2024, 12, 26)

----------------------------------------------------------------------------
(* Properties of the delivery estimator, under SpecEstimate *)

\* the ship date, the transit days and the delivery date that the three
\* steps of calculateDeliveryDate give when each is taken on its own
StepShipDate(r) ==
    IF r.module = "client"
    THEN getShipDate(EmptyCache, env, r.hourAt).value
    ELSE Helper_getShipDate(env, r.hourAt, r.todayAt).value

StepTransitDays(r) ==
    IF r.module = "client"
    THEN IF Falsy(r.method) THEN getTransitDays(r.zip)
         ELSE getTransitDaysForShippingMethod(r.method, r.zip)
    ELSE IF Falsy(r.method) THEN Helper_getTransitDays(r.zip)
         ELSE Helper_getTransitDaysForShippingMethod(r.method, r.zip)

StepDeliveryDate(r, shipDate, transitDays) ==
    IF r.module = "client"
    THEN addBusinessDays(EmptyCache, shipDate, transitDays).value
    ELSE Helper_addBusinessDays(shipDate, transitDays)

\* '<Month> <Day><suffix>' of a day
ShortForm(day) ==
    Once(CivilFromDays(day), LAMBDA f :
        months[f.month + 1] \o " " \o ToString(f.date) \o
        (IF f.date \in {1, 21, 31} THEN "st"
         ELSE IF f.date \in {2, 22} THEN "nd"
         ELSE IF f.date \in {3, 23} THEN "rd"
         ELSE "th"))

\* C14: calculateDeliveryDate(zip, method), of the helper and of the client
\* utility, returns shipDate = getShipDate(), transitDays =
\* getTransitDaysForShippingMethod(method, zip) when the method is truthy and
\* getTransitDays(zip) when it is not, and deliveryDate =
\* addBusinessDays(shipDate, transitDays); formattedDate is
\* '<Month> <Day><suffix>' of deliveryDate, formattedDateFull is its weekday
\* name and ', ' before formattedDate, displayMessage is 'Get it by ' before
\* formattedDate.
C14_EstimateIsComposition ==
    ret.op = "calculateDeliveryDate" =>
        \A shipDate \in {StepShipDate(ret)} :
        \A transitDays \in {StepTransitDays(ret)} :
        \A deliveryDate \in {StepDeliveryDate(ret, shipDate, transitDays)} :
        \A short \in {ShortForm(deliveryDate)} :
            /\ ret.value.shipDate = shipDate
            /\ ret.value.transitDays = transitDays
            /\ ret.value.deliveryDate = deliveryDate
            /\ ret.value.formattedDate = short
            /\ ret.value.formattedDateFull =
                   days[((deliveryDate + 4) % 7) + 1] \o ", " \o short
            /\ ret.value.displayMessage = "Get it by " \o short

\* C14 witness: the client utility, asked for overnight delivery to 90210
\* on the morning of Christmas Eve 2024 in New York, ships that day and
\* delivers on Thursday the 26th
C14_Witness ==
    /\ ret.op = "calculateDeliveryDate"
    /\ ret.module = "client"
    /\ ret.method = JSText("overnight")
    /\ ret.zip = JSChars(<<"9", "0", "2", "1", "0">>)
    /\ ret.value.shipDate = DaysFromCivil(2024, 12, 24)
    /\ ret.value.transitDays = 1
    /\ ret.value.deliveryDate = DaysFromCivil(2024, 12, 26)
    /\ ret.value.formattedDateFull = "Thursday, December 26th"
    /\ ret.value.displayMessage = "Get it by December 26th"

\* the transit days of a method for a ZIP code, of the module called
MethodTransitDays(module, id, zip) ==
    IF module = "client"
    THEN getTransitDaysForShippingMethod(JSText(id), zip)
    ELSE Helper_getTransitDaysForShippingMethod(JSText(id), zip)

\* C19: for every ZIP code getDeliveryEstimatesForAllMethods, of the helper
\* and of the client utility, returns exactly three entries in the order
\* standard, express, overnight, with prices 5.99, 12.99, 24.99 (in cents
\* here; strictly increasing); the transitDays of each entry equal
\* getTransitDaysForShippingMethod(that method, zip), and never increase
\* along the list.
C19_AllMethodsInOrder ==
    ret.op = "getDeliveryEstimatesForAllMethods" =>
        \A list \in {ret.value} :
            /\ Len(list) = 3
            /\ << list[1].shippingMethodId, list[2].shippingMethodId,
                  list[3].shippingMethodId >>
                   = << "standard", "express", "overnight" >>
            /\ << list[1].price, list[2].price, list[3].price >>
                   = << 599, 1299, 2499 >>
            /\ list[1].price < list[2].price
            /\ list[2].price < list[3].price
            /\ \A k \in 1 .. 3 :
                   list[k].transitDays =
                       MethodTransitDays(ret.module, list[k].shippingMethodId,
                                         ret.zip)
            /\ list[1].transitDays >= list[2].transitDays
            /\ list[2].transitDays >= list[3].transitDays

\* C19 witness: for 90210 the helper listed 5, 2 and 1 transit days
C19_Witness ==
    /\ ret.op = "getDeliveryEstimatesForAllMethods"
    /\ ret.module = "helper"
    /\ ret.zip = JSChars(<<"9", "0", "2", "1", "0">>)
    /\ Len(ret.value) = 3
    /\ << ret.value[1].transitDays, ret.value[2].transitDays,
          ret.value[3].transitDays >> = << 5, 2, 1 >>

----------------------------------------------------------------------------
(* Properties of the controller, under SpecController *)

\* how many times a handler made the call name
TimesCalled(calls, name) ==
    Cardinality({i \in DOMAIN calls : calls[i].call = name})

\* the bodies passed to res.json, in order
Bodies(calls) ==
    SelectSeq(calls, LAMBDA c : c.call = "res.json")

Handled == ret.op \in {"GetEstimate", "GetAllEstimates"}

ZipAccepted == Helper_isValidZipCode(ret.querystring.zipCode)

C16_FailureCaughtAndOneResponse ==
    Handled =>
        /\ TimesCalled(ret.calls, "throw") = 0
        /\ TimesCalled(ret.calls, "res.json") = 1
        /\ TimesCalled(ret.calls, "next") = 1
        /\ \A i, j \in DOMAIN ret.calls :
               ret.calls[i].call = "res.json" /\ ret.calls[j].call = "next"
                   => i < j
        /\ ZipAccepted /\ ret.throws =>
               \A b \in {Bodies(ret.calls)[1].body} :
                   /\ b.success = FALSE
                   /\ b.errorCode = "CALCULATION_ERROR"

\* C16 witness: calculateDeliveryDate threw inside GetEstimate, and the
\* handler answered CALCULATION_ERROR and then called next()
C16_Witness ==
    /\ ret.op = "GetEstimate"
    /\ ZipAccepted
    /\ ret.throws
    /\ Len(ret.calls) = 4
    /\ ret.calls[2] = helperCall("calculateDeliveryDate")
    /\ ret.calls[3].call = "res.json"
    /\ ret.calls[3].body.errorCode = "CALCULATION_ERROR"
    /\ ret.calls[4] = nextCall

\* the request did not succeed: the ZIP code was refused or the helper threw
Failed == Handled /\ (~ZipAccepted \/ ret.throws)

\* the body with which the other endpoint answers the same zipCode under
\* the same failure
OtherBody ==
    IF ret.op = "GetAllEstimates"
    THEN Bodies(GetEstimate(env, clock, clock,
                            [zipCode |-> ret.querystring.zipCode,
                             shippingMethodId |-> JSUndefined],
                            ret.throws))[1].body
    ELSE Bodies(GetAllEstimates(env, [k \in 1 .. 6 |-> clock],
                                [zipCode |-> ret.querystring.zipCode],
                                ret.throws))[1].body

\* C17 as stated: the invalid-ZIP response and the calculation-failure
\* response of GetAllEstimates and of GetEstimate are equal field for field
\* (success, error, errorCode), and the failure text is 'Unable to calculate
\* delivery date. Please try again.'.
C17_SameErrorObjects ==
    Failed =>
        \A mine \in {Bodies(ret.calls)[1].body} :
            /\ mine = OtherBody
            /\ ZipAccepted =>
                   mine.error = "Unable to calculate delivery date. Please try again."

\* C17 amended: the two endpoints give error objects of the same shape
\* (success, error, errorCode) with equal success and errorCode; the
\* invalid-ZIP responses are equal field for field; the failure text is
\* 'Unable to calculate delivery date. Please try again.' for GetEstimate and
\* 'Unable to calculate delivery dates. Please try again.' for
\* GetAllEstimates.
C17_SameErrorShapes ==
    Failed =>
        \A mine \in {Bodies(ret.calls)[1].body} :
        \A other \in {OtherBody} :
            /\ DOMAIN mine = {"success", "error", "errorCode"}
            /\ DOMAIN other = DOMAIN mine
            /\ mine.success = FALSE
            /\ other.success = FALSE
            /\ mine.errorCode = other.errorCode
            /\ ~ZipAccepted => mine = other
            /\ ZipAccepted =>
                   mine.error =
                       IF ret.op = "GetEstimate"
                       THEN "Unable to calculate delivery date. Please try again."
                       ELSE "Unable to calculate delivery dates. Please try again."

\* C17 witness: the helper threw inside GetAllEstimates, which answered
\* with the text in the plural
C17_Witness ==
    /\ ret.op = "GetAllEstimates"
    /\ ZipAccepted
    /\ ret.throws
    /\ Bodies(ret.calls)[1].body.errorCode = "CALCULATION_ERROR"
    /\ Bodies(ret.calls)[1].body.error =
           "Unable to calculate delivery dates. Please try again."
    /\ OtherBody.error = "Unable to calculate delivery date. Please try again."

\* a shipping method was given with the request
MethodGiven(q) ==
    /\ q.shippingMethodId.type = "string"
    /\ q.shippingMethodId # JSText("")

\* C18: on success GetEstimate answers success: true, the zipCode as
\* received, shippingMethodId equal to the given identifier, or 'standard'
\* when none was given, and transitDays, deliveryDate, deliveryDateFull and
\* displayMessage of the estimate calculateDeliveryDate(zipCode,
\* shippingMethodId); when no method was given the transitDays are those of
\* method 'standard' for that ZIP code.
C18_SuccessResponse ==
    ret.op = "GetEstimate" /\ ZipAccepted /\ ~ret.throws =>
        \A q \in {ret.querystring} :
        \A b \in {Bodies(ret.calls)[1].body} :
        \A estimate \in {Helper_calculateDeliveryDate(
                            env, ret.hourAt, ret.todayAt, q.zipCode,
                            q.shippingMethodId)} :
            /\ b.success = TRUE
            /\ b.zipCode = q.zipCode
            /\ b.shippingMethodId =
                   IF MethodGiven(q) THEN q.shippingMethodId
                   ELSE JSText("standard")
            /\ b.transitDays = estimate.transitDays
            /\ b.deliveryDate = estimate.formattedDate
            /\ b.deliveryDateFull = estimate.formattedDateFull
            /\ b.displayMessage = estimate.displayMessage
            /\ ~MethodGiven(q) =>
                   b.transitDays = Helper_getTransitDaysForShippingMethod(
                                       JSText("standard"), q.zipCode)

\* C18 witness: GetEstimate for 90210 without a method answered standard
\* with five transit days
C18_Witness ==
    /\ ret.op = "GetEstimate"
    /\ ~ret.throws
    /\ ret.querystring.zipCode = JSChars(<<"9", "0", "2", "1", "0">>)
    /\ ret.querystring.shippingMethodId = JSUndefined
    /\ Bodies(ret.calls)[1].body.success = TRUE
    /\ Bodies(ret.calls)[1].body.shippingMethodId = JSText("standard")
    /\ Bodies(ret.calls)[1].body.transitDays = 5

----------------------------------------------------------------------------
(* Equivalence of the server helper and the client utility, under
   SpecCalendar *)

\* what the client utility and the helper return for the call held in ret
ClientResult ==
    CASE ret.op = "isBusinessDay" ->
            isBusinessDay(holidayCache, ret.date).value
      [] ret.op = "getNextBusinessDay" ->
            getNextBusinessDay(holidayCache, ret.date).value
      [] ret.op = "addBusinessDays" ->
            addBusinessDays(holidayCache, ret.date, ret.businessDays).value
      [] ret.op = "getTransitDays" -> getTransitDays(ret.zip)
      [] ret.op = "getTransitDaysForShippingMethod" ->
            getTransitDaysForShippingMethod(ret.method, ret.zip)
      [] ret.op = "getShipDate" ->
            getShipDate(holidayCache, env, ret.hourAt).value
      [] ret.op = "calculateDeliveryDate" ->
            calculateDeliveryDate(holidayCache, env, ret.hourAt, ret.zip,
                                  ret.method).value

HelperResult ==
    CASE ret.op = "isBusinessDay" -> Helper_isBusinessDay(ret.date)
      [] ret.op = "getNextBusinessDay" -> Helper_getNextBusinessDay(ret.date)
      [] ret.op = "addBusinessDays" ->
            Helper_addBusinessDays(ret.date, ret.businessDays)
      [] ret.op = "getTransitDays" -> Helper_getTransitDays(ret.zip)
      [] ret.op = "getTransitDaysForShippingMethod" ->
            Helper_getTransitDaysForShippingMethod(ret.method, ret.zip)
      [] ret.op = "getShipDate" ->
            Helper_getShipDate(env, ret.hourAt, ret.todayAt).value
      [] ret.op = "calculateDeliveryDate" ->
            Helper_calculateDeliveryDate(env, ret.hourAt, ret.todayAt,
                                         ret.zip, ret.method)

\* C20: the server helper and the client utility implement the same
\* business logic: for every date, ZIP code, shipping method and clock
\* instant, isBusinessDay, getNextBusinessDay, addBusinessDays,
\* getTransitDays, getTransitDaysForShippingMethod, getShipDate and
\* calculateDeliveryDate of the two modules return equal results, for dates
\* in any year.
C20_ModulesAgree ==
    /\ ret.op \in {"isBusinessDay", "getNextBusinessDay", "addBusinessDays",
                   "getTransitDays", "getTransitDaysForShippingMethod",
                   "getShipDate", "calculateDeliveryDate"}
    /\ ret.module \in {"client", "helper"}
    => ClientResult = HelperResult

\* C20 failing state: New Year's Day 2026, a Thursday, is a business day
\* for the helper and a holiday for the client utility
C20_Witness ==
    /\ ret.op = "isBusinessDay"
    /\ ret.module = "helper"
    /\ ret.date = DaysFromCivil(2026, 1, 1)
    /\ ret.value = TRUE
    /\ isBusinessDay(holidayCache, ret.date).value = FALSE

----------------------------------------------------------------------------
(* Properties of the display strings, under SpecFormat *)

\* the suffix the rule gives to a day of the month
OrdinalSuffix(d) ==
    CASE d \in {1, 21, 31} -> "st"
      [] d \in {2, 22} -> "nd"
      [] d \in {3, 23} -> "rd"
      [] OTHER -> "th"

\* C21: for every day of the month 1..31 the suffix in the formatted
\* strings is 'st' for 1, 21 and 31, 'nd' for 2 and 22, 'rd' for 3 and 23,
\* and 'th' for every other day, 11, 12 and 13 included.
C21_OrdinalSuffix ==
    ret.op = "formatDeliveryDate" =>
        \A f \in {CivilFromDays(ret.date)} :
        \A text \in {months[f.month + 1] \o " " \o ToString(f.date)
                         \o OrdinalSuffix(f.date)} :
            /\ f.date \in 1 .. 31
            /\ ret.formattedDate = text
            /\ ret.formattedDateFull =
                   days[((ret.date + 4) % 7) + 1] \o ", " \o text
            /\ ret.displayMessage = "Get it by " \o text

\* C21 witness: Tuesday 2025-03-11 is formatted with 'th'
C21_Witness ==
    /\ ret.op = "formatDeliveryDate"
    /\ ret.date = DaysFromCivil(2025, 3, 11)
    /\ ret.formattedDate = "March 11th"
    /\ ret.formattedDateFull = "Tuesday, March 11th"

----------------------------------------------------------------------------
(* Further properties of the controller, under SpecController *)

\* the 5-digit ZIP code that validation accepted: the raw zipCode without
\* its non-digit characters
AcceptedZip(raw) == JSChars(StripNonDigits(raw.chars))

\* C22: for every raw zipCode that GetEstimate accepts, the transitDays of
\* the response are those of the 5-digit ZIP code that validation accepted
\* (the input without its non-digit characters): its zone-table value when
\* no method is given, and the method's transit days for it otherwise;
\* validation and transit lookup read the same ZIP code.
C22_TransitOfAcceptedZip ==
    ret.op = "GetEstimate" /\ ZipAccepted /\ ~ret.throws =>
        \A q \in {ret.querystring} :
        \A accepted \in {AcceptedZip(q.zipCode)} :
            Bodies(ret.calls)[1].body.transitDays =
                IF MethodGiven(q)
                THEN Helper_getTransitDaysForShippingMethod(
                         q.shippingMethodId, accepted)
                ELSE (DecimalValue(accepted.chars) \div 20000) + 1

\* C22 failing state: '9-0210' was accepted as 90210, five days away, and
\* the response carries the one day of ZIP code 9
C22_Witness ==
    /\ ret.op = "GetEstimate"
    /\ ~ret.throws
    /\ ret.querystring.zipCode = JSChars(<<"9", "-", "0", "2", "1", "0">>)
    /\ ret.querystring.shippingMethodId = JSUndefined
    /\ ZipAccepted
    /\ AcceptedZip(ret.querystring.zipCode)
           = JSChars(<<"9", "0", "2", "1", "0">>)
    /\ Bodies(ret.calls)[1].body.transitDays = 1

----------------------------------------------------------------------------
(* Further properties of the Holiday Calculator, under SpecHolidays *)

\* the days whose YYYY-MM-DD form is an entry of holidays, looked for from
\* December of the year before y to January of the year after
DatesOf(holidays, y) ==
    { d \in DaysFromCivil(y - 1, 12, 1) .. DaysFromCivil(y + 1, 1, 31) :
        formatDateStringInternal(d) \in Range(holidays) }

\* C23: for every year Y, every date of getHolidaysForYear(Y) lies in
\* calendar year Y and isBusinessDay returns false for it: no observed
\* holiday is treated as a business day because the lookup by year misses
\* it.
C23_HolidaysInYearAndClosed ==
    ret.op = "getHolidaysForYear" =>
        \A dates \in {DatesOf(ret.value, ret.year)} :
            /\ Cardinality(dates) = Cardinality(Range(ret.value))
            /\ \A d \in dates :
                   /\ getFullYear(d) = ret.year
                   /\ isBusinessDay(holidayCache, d).value = FALSE

\* C23 failing state: New Year's Day 2022 is a Saturday; the set of 2022
\* holds Friday 2021-12-31, which isBusinessDay looks up in the set of 2021
\* and takes for a business day
C23_Witness ==
    /\ ret.op = "getHolidaysForYear"
    /\ ret.year = 2022
    /\ getDay(DaysFromCivil(2022, 1, 1)) = 6
    /\ ret.value[1] = "2021-12-31"
    /\ isBusinessDay(holidayCache, DaysFromCivil(2021, 12, 31)).value = TRUE

----------------------------------------------------------------------------
(* Further properties of the delivery estimator, under SpecEstimate *)

\* the estimate behind the k-th entry of the list held in ret: the k-th
\* per-method calculation, at the instants at which it read the clock
EstimateBehind(k) ==
    IF ret.module = "client"
    THEN calculateDeliveryDate(EmptyCache, env, ret.at[k], ret.zip,
                               JSText(shippingMethods[k].id)).value
    ELSE Helper_calculateDeliveryDate(env, ret.at[2 * k - 1], ret.at[2 * k],
                                      ret.zip, JSText(shippingMethods[k].id))

\* C24: in one result of getDeliveryEstimatesForAllMethods the delivery
\* date of express is never later than that of standard, and that of
\* overnight never later than that of express, also when the clock passes
\* the 14:00 cutoff or midnight between the three calculations.
C24_FasterMethodNeverLater ==
    ret.op = "getDeliveryEstimatesForAllMethods" =>
        \A standard \in {EstimateBehind(1)} :
        \A express \in {EstimateBehind(2)} :
        \A overnight \in {EstimateBehind(3)} :
            /\ ret.value[1].deliveryDate = standard.formattedDate
            /\ ret.value[2].deliveryDate = express.formattedDate
            /\ ret.value[3].deliveryDate = overnight.formattedDate
            /\ express.deliveryDate <= standard.deliveryDate
            /\ overnight.deliveryDate <= express.deliveryDate

\* C24 failing state: for 10001 the helper computed standard before 14:00
\* in New York on Christmas Eve 2024 and express after it: standard
\* arrives on the 26th, express on the 27th
C24_Witness ==
    /\ ret.op = "getDeliveryEstimatesForAllMethods"
    /\ ret.module = "helper"
    /\ ret.zip = JSChars(<<"1", "0", "0", "0", "1">>)
    /\ LocalHour(Origin, ret.at[1]) = 13
    /\ LocalHour(Origin, ret.at[3]) = 14
    /\ ret.value[1].deliveryDate = "December 26th"
    /\ ret.value[2].deliveryDate = "December 27th"

----------------------------------------------------------------------------
(* The readings of the clock in the helper's getShipDate, under Spec *)

\* the cutoff rule of the helper on one reading t of the clock: the hour
\* in New York and the date of the process at t
HelperRuleAt(t) ==
    \* the date of the process at t
    LET today == LocalDay(env.zone, t)
    IN  IF LocalHour(Origin, t) < 14 /\ JudgedBusinessDay("helper", today)
        THEN today
        ELSE JudgedNextBusinessDay("helper", today)

\* C25: the ship date returned by the helper's getShipDate is the cutoff
\* rule applied to one single instant between the start and the end of the
\* call: the hour compared with the cutoff and the date used as today come
\* from the same reading of the clock.
C25_OneReadingOfTheClock ==
    ret.op = "getShipDate" /\ ret.module = "helper" =>
        \E t \in ret.hourAt .. ret.todayAt :
            /\ ret.estHour = LocalHour(Origin, t)
            /\ ret.today = LocalDay(env.zone, t)
            /\ ret.value = HelperRuleAt(t)

\* C25 failing state: the hour was read before midnight of the process
\* and today after it, and the date returned is the rule's date at neither
\* reading
C25_Witness ==
    /\ ret.op = "getShipDate"
    /\ ret.module = "helper"
    /\ ret.todayAt > ret.hourAt
    /\ ret.estHour = LocalHour(Origin, ret.hourAt)
    /\ ret.today = LocalDay(env.zone, ret.todayAt)
    /\ ret.today # LocalDay(env.zone, ret.hourAt)
    /\ ret.value # HelperRuleAt(ret.hourAt)
    /\ ret.value # HelperRuleAt(ret.todayAt)

----------------------------------------------------------------------------
(* The default of the transit resolver, under SpecTransit *)

\* the five ranges of the zone table
ZoneRanges ==
    << [lo |-> 0, hi |-> 19999, transitDays |-> 1],
       [lo |-> 20000, hi |-> 39999, transitDays |-> 2],
       [lo |-> 40000, hi |-> 59999, transitDays |-> 3],
       [lo |-> 60000, hi |-> 79999, transitDays |-> 4],
       [lo |-> 80000, hi |-> 99999, transitDays |-> 5] >>

\* the ranges that hold n
RangesOf(n) ==
    {k \in DOMAIN ZoneRanges : ZoneRanges[k].lo <= n /\ n <= ZoneRanges[k].hi}

\* C26 as stated: for every input string to getTransitDays, every value
\* that parses as an integer is classified by one of the five ranges, none
\* falls outside them: the default is reached only when parsing fails.
C26_EveryParsedValueInARange ==
    ret.op = "getTransitDays" /\ ret.zip.type = "string" =>
        \A parsed \in {parseInt(ret.zip)} :
            ~parsed.nan =>
                /\ RangesOf(parsed.n) # {}
                /\ \A k \in RangesOf(parsed.n) :
                       ret.value = ZoneRanges[k].transitDays

\* C26 amended: a parsed value in 0..99999, that of every string of five
\* digits included, lies in exactly one of the five ranges and gets the
\* transit days of that range; the default 5 is returned when parsing fails
\* and also when the parsed value is negative or above 99999.
C26_DefaultOutsideTheRanges ==
    ret.op = "getTransitDays" /\ ret.zip.type = "string" =>
        \A parsed \in {parseInt(ret.zip)} :
            /\ parsed.nan => ret.value = 5
            /\ ~parsed.nan /\ parsed.n \in 0 .. 99999 =>
                   /\ Cardinality(RangesOf(parsed.n)) = 1
                   /\ \A k \in RangesOf(parsed.n) :
                          ret.value = ZoneRanges[k].transitDays
            /\ ~parsed.nan /\ parsed.n \notin 0 .. 99999 =>
                   /\ RangesOf(parsed.n) = {}
                   /\ ret.value = 5
            /\ ( /\ Len(ret.zip.chars) = 5
                 /\ \A i \in 1 .. 5 : ret.zip.chars[i] \in Digits )
                   => ~parsed.nan /\ parsed.n \in 0 .. 99999

\* C26 witness: '-9' parses as -9, which no range holds, and the helper
\* returned the default
C26_Witness ==
    /\ ret.op = "getTransitDays"
    /\ ret.module = "helper"
    /\ ret.zip = JSChars(<<"-", "9">>)
    /\ parseInt(ret.zip) = Number(0 - 9)
    /\ RangesOf(parseInt(ret.zip).n) = {}
    /\ ret.value = 5

----------------------------------------------------------------------------
(* Properties of the holiday cache, under SpecCache *)

\* the year whose holidays the call that has just returned asked for; no
\* year for isBusinessDay on a Saturday or Sunday, which does not look up
RequestedYears(r) ==
    CASE r.op = "getHolidaysForYear" -> {r.year}
      [] r.op = "isBusinessDay" /\ getDay(r.date) \in 1 .. 5 ->
            {getFullYear(r.date)}
      [] OTHER -> {}

\* C27: after any sequence of getHolidaysForYear and isBusinessDay calls
\* the holiday cache holds, for each year requested so far, exactly what
\* calculateHolidaysForYear gives for that year; an entry, once written, is
\* never changed or removed; a call for year Y leaves the entries of every
\* other year as they were; a call for a year already cached returns the
\* stored set and leaves the cache as it was.
C27_CacheFrame ==
    /\ [](\A y \in DOMAIN holidayCache :
              holidayCache[y] = calculateHolidaysForYear(y))
    /\ [][ /\ \A y \in DOMAIN holidayCache :
                  /\ y \in DOMAIN holidayCache'
                  /\ holidayCache'[y] = holidayCache[y]
           /\ DOMAIN holidayCache' =
                  DOMAIN holidayCache \cup RequestedYears(ret')
           /\ ret'.op = "getHolidaysForYear" =>
                  /\ ret'.value = holidayCache'[ret'.year]
                  /\ ret'.year \in DOMAIN holidayCache =>
                         /\ ret'.value = holidayCache[ret'.year]
                         /\ holidayCache' = holidayCache ]_vars

\* C27 witness: with 2024 and 2025 cached, a call of getHolidaysForYear
\* for 2024 returned the stored set of 2024
C27_Witness ==
    /\ ret.op = "getHolidaysForYear"
    /\ ret.cached
    /\ ret.year = 2024
    /\ callerDate > DaysFromCivil(2025, 1, 1)
    /\ DOMAIN holidayCache = {2024, 2025}
    /\ ret.value = holidayCache[2024]

----------------------------------------------------------------------------
(* Bounds of an estimate, under SpecEstimate *)

\* C28: for every ZIP code, every shipping method and every clock instant,
\* the transitDays of calculateDeliveryDate are an integer in 1..5, the
\* deliveryDate is a business day, and it is strictly later than the
\* shipDate.
C28_EstimateBounds ==
    ret.op = "calculateDeliveryDate" =>
        /\ ret.value.transitDays \in 1 .. 5
        /\ JudgedBusinessDay(ret.module, ret.value.deliveryDate)
        /\ ret.value.deliveryDate > ret.value.shipDate

\* C28 witness: the helper, asked for 'abcde' with an unknown method after
\* the cutoff on Christmas Eve 2024, counts 5 business days from the 26th
\* and delivers on Friday 2025-01-03
C28_Witness ==
    /\ ret.op = "calculateDeliveryDate"
    /\ ret.module = "helper"
    /\ ret.zip = JSChars(<<"a", "b", "c", "d", "e">>)
    /\ ret.method = JSText("unknown")
    /\ ret.value.transitDays = 5
    /\ ret.value.shipDate = DaysFromCivil(2024, 12, 26)
    /\ ret.value.deliveryDate = DaysFromCivil(2025, 1, 3)

----------------------------------------------------------------------------
(* Termination of the business-day loops, under SpecCalendar *)

\* the number of times the body of the while loop ran in the call that
\* has just returned: each run moves the date one day forward, and
\* getNextBusinessDay moves it once before the loop
LoopIterations(r) ==
    IF r.op = "getNextBusinessDay" THEN r.value - r.date - 1
    ELSE r.value - r.date

\* C29: getNextBusinessDay(d) and addBusinessDays(d, n), n in 0..5, return
\* for every date d, and their loops run at most 366 times: at most 3
\* calendar days in a row are not business days, so getNextBusinessDay
\* moves at most 4 calendar days forward.
C29_LoopsBounded ==
    ret.op \in {"getNextBusinessDay", "addBusinessDays"} =>
        /\ LoopIterations(ret) \in 0 .. 366
        /\ \E x \in (ret.date + 1) .. (ret.date + 4) :
               JudgedBusinessDay(ret.module, x)
        /\ ret.op = "getNextBusinessDay" =>
               /\ ret.value <= ret.date + 4
               /\ LoopIterations(ret) <= 3
        /\ ret.op = "addBusinessDays" =>
               /\ ret.businessDays \in 0 .. MaxBusinessDays
               /\ LoopIterations(ret) >= ret.businessDays

\* C29 witness: from Friday 2025-01-17 the client utility passes Saturday,
\* Sunday and Martin Luther King Day: the loop ran 3 times and the result
\* is Tuesday the 21st, 4 days on
C29_Witness ==
    /\ ret.op = "getNextBusinessDay"
    /\ ret.module = "client"
    /\ ret.date = DaysFromCivil(2025, 1, 17)
    /\ ret.value = ret.date + 4
    /\ LoopIterations(ret) = 3

----------------------------------------------------------------------------
(* Properties of the checkout page, under SpecCheckout *)

\* C30: at checkout, for every applicable shipping method (identifier and
\* name), the promise method used for the date stored on submit and for
\* the date in the summary is the one used for the date shown beside that
\* method in the option list, so that, the clock not having changed, the
\* stored customerSelectedDeliveryDate is the date shown for the selected
\* method (with its weekday) and so is the date of the summary.
C30_StoredDateIsShownDate ==
    ret.op = "checkout" /\ ret.step \in {"submitted", "summary"} =>
        /\ ret.storedMethodId = ret.optionMethodId[ret.selected]
        /\ \E weekday \in Range(days) :
               ret.localStorage.customerSelectedDeliveryDate =
                   weekday \o ", " \o ret.optionDate[ret.selected]
        /\ ret.step = "summary" =>
               /\ ret.summaryMethodId = ret.optionMethodId[ret.selected]
               /\ ret.summaryDate = ret.optionDate[ret.selected]

\* C30 failing state: method '002', '2-Day Express', is listed with the
\* date of express and submitted with the date of standard, which for
\* 90210 is a later day
C30_Witness ==
    /\ ret.op = "checkout"
    /\ ret.step = "submitted"
    /\ applicableShippingMethods[ret.selected].id = JSChars(<<"0", "0", "2">>)
    /\ ret.destinationZip = JSChars(<<"9", "0", "2", "1", "0">>)
    /\ ret.optionMethodId[ret.selected] = "express"
    /\ ret.storedMethodId = "standard"
    /\ \A weekday \in Range(days) :
           ret.localStorage.customerSelectedDeliveryDate #
               weekday \o ", " \o ret.optionDate[ret.selected]


=============================================================================
